---- MODULE Spec2Model ----
(***************************************************************************)
(* A model of times-tables: the tag/table boundary scanner                 *)
(* (times_tables/excel.py, times_tables/scanner.py), the table parser      *)
(* (times_tables/extract.py), the identifier generator                     *)
(* (austimes_tables/ids.py) and the deterministic serializer               *)
(* (austimes_tables/sorting.py, austimes_tables/csvio.py,                  *)
(* times_tables/commands/format.py).                                       *)
(*                                                                         *)
(* A Python string is a sequence of one-character strings, so that strip,  *)
(* lower, startswith, concatenation and codepoint comparison are computed. *)
(* A cell or DataFrame value is a record [k, s]: k is "none" (Python       *)
(* None), "nan" (float NaN), "na" (pandas.NA) or "str" (a string s).       *)
(***************************************************************************)
EXTENDS Integers, Sequences, FiniteSets, TLC

\* ------------------------------------------------------------- bounds
\* columns of the sheets of the header-span specification
HdrCols == 4
\* rows of the DataFrames of the serializer specification
MaxDfRows == 3
\* columns and data rows of the sheets of the data-row specification
RowCols == 2
DataRows == 3
\* columns of the sheets of the duplicate-header specification
DupCols == 3
\* rows and columns a tag can be moved to in the relocation specification
\* readings of the clock of the deck specification: its runs and edits
MaxClock == 3
\* tables of the indexes of the comparison specification
DiffTables == 3
\* calls of add_workbook and add_table that build an index
IoOps == 4
MoveRows == 2
MoveCols == 3
\* length of the sheet names and logical names of the identifier specification
NameLen == 4

\* ------------------------------------------------------------ strings
\* the codepoints of the characters the model's strings are made of
Cp ==
  (" " :> 32 @@ "!" :> 33 @@ "-" :> 45 @@ "." :> 46 @@ "/" :> 47
   @@ "0" :> 48 @@ "1" :> 49 @@ "2" :> 50 @@ "3" :> 51
   @@ "4" :> 52 @@ "5" :> 53 @@ "6" :> 54 @@ "7" :> 55 @@ "8" :> 56
   @@ "9" :> 57 @@ ":" :> 58 @@ "<" :> 60 @@ ">" :> 62 @@ "A" :> 65
   @@ "B" :> 66 @@ "C" :> 67 @@ "D" :> 68 @@ "E" :> 69 @@ "F" :> 70
   @@ "G" :> 71 @@ "H" :> 72 @@ "I" :> 73 @@ "J" :> 74 @@ "K" :> 75
   @@ "L" :> 76 @@ "M" :> 77 @@ "N" :> 78 @@ "O" :> 79 @@ "P" :> 80
   @@ "Q" :> 81 @@ "R" :> 82 @@ "S" :> 83 @@ "T" :> 84 @@ "U" :> 85
   @@ "V" :> 86 @@ "W" :> 87 @@ "X" :> 88 @@ "Y" :> 89 @@ "Z" :> 90
   @@ "_" :> 95 @@ "a" :> 97 @@ "b" :> 98 @@ "c" :> 99 @@ "d" :> 100
   @@ "e" :> 101 @@ "f" :> 102 @@ "g" :> 103 @@ "h" :> 104 @@ "i" :> 105
   @@ "j" :> 106 @@ "k" :> 107 @@ "l" :> 108 @@ "m" :> 109 @@ "n" :> 110
   @@ "o" :> 111 @@ "p" :> 112 @@ "q" :> 113 @@ "r" :> 114 @@ "s" :> 115
   @@ "t" :> 116 @@ "u" :> 117 @@ "v" :> 118 @@ "w" :> 119 @@ "x" :> 120
   @@ "y" :> 121 @@ "z" :> 122 @@ "~" :> 126)

Chr(n) == CHOOSE ch \in DOMAIN Cp : Cp[ch] = n

IsUpperCh(ch) == Cp[ch] >= 65 /\ Cp[ch] <= 90
IsLowerCh(ch) == Cp[ch] >= 97 /\ Cp[ch] <= 122
IsDigitCh(ch) == Cp[ch] >= 48 /\ Cp[ch] <= 57
IsSpaceCh(ch) == ch = " "

LowerCh(ch) == IF IsUpperCh(ch) THEN Chr(Cp[ch] + 32) ELSE ch
UpperCh(ch) == IF IsLowerCh(ch) THEN Chr(Cp[ch] - 32) ELSE ch

\* str.lower(), str.upper()
Lower(s) == [i \in 1..Len(s) |-> LowerCh(s[i])]
Upper(s) == [i \in 1..Len(s) |-> UpperCh(s[i])]

\* str.lstrip(chars) for a set of characters
RECURSIVE LStripSet(_, _)
LStripSet(s, chars) ==
  IF s # <<>> /\ Head(s) \in chars THEN LStripSet(Tail(s), chars) ELSE s

RECURSIVE RStripSet(_, _)
RStripSet(s, chars) ==
  IF s # <<>> /\ s[Len(s)] \in chars
  THEN RStripSet(SubSeq(s, 1, Len(s) - 1), chars)
  ELSE s

\* str.strip(): leading and trailing whitespace removed
Strip(s) == RStripSet(LStripSet(s, {" "}), {" "})

\* str.startswith(prefix)
StartsWith(s, prefix) ==
  Len(s) >= Len(prefix) /\ SubSeq(s, 1, Len(prefix)) = prefix

\* s < t in Python: lexicographic order of the codepoints
RECURSIVE StrLess(_, _)
StrLess(s, t) ==
  IF t = <<>> THEN FALSE
  ELSE IF s = <<>> THEN TRUE
  ELSE IF Cp[Head(s)] # Cp[Head(t)] THEN Cp[Head(s)] < Cp[Head(t)]
  ELSE StrLess(Tail(s), Tail(t))

\* str(i) for a small non-negative integer
RECURSIVE IntStr(_)
IntStr(i) ==
  IF i < 10 THEN <<Chr(48 + i)>> ELSE IntStr(i \div 10) \o <<Chr(48 + (i % 10))>>

\* ------------------------------------------------------------- values
NoneV == [k |-> "none", s |-> <<>>]
NaNV == [k |-> "nan", s |-> <<>>]
NAV == [k |-> "na", s |-> <<>>]
StrV(s) == [k |-> "str", s |-> s]
\* a cell holding the int i, and what it is in a float64 column; s is the
\* str() of the value
IntV(i) == [k |-> "int", s |-> IntStr(i)]
FloatOfInt(v) == [k |-> "float", s |-> v.s \o <<".", "0">>]

\* str(value)
PyStr(v) ==
  CASE v.k = "none" -> <<"N", "o", "n", "e">>
    [] v.k = "nan" -> <<"n", "a", "n">>
    [] v.k = "na" -> <<"<", "N", "A", ">">>
    [] OTHER -> v.s

\* ------------------------------------------------------------- sheets
\* A workbook is the sequence of its worksheets; a worksheet is its title
\* and its grid of cell values (a sequence of rows).
max_row(sheet) == Len(sheet.rows)
max_column(sheet) == IF Len(sheet.rows) = 0 THEN 1 ELSE Len(sheet.rows[1])

\* sheet.cell(row, column).value: a cell outside the grid holds None
cell(sheet, row, column) ==
  IF row \in 1..max_row(sheet) /\ column \in 1..max_column(sheet)
  THEN sheet.rows[row][column]
  ELSE NoneV

\* the test excel.py applies to a header cell: None or whitespace only
HeaderEmpty(sheet, row, column) ==
  LET val == cell(sheet, row, column)
  IN  val = NoneV \/ Strip(PyStr(val)) = <<>>

\* ---------------------------------------------------------- find_tags
\* the cells of the grid in row-major order, k = 0 .. rows*columns - 1
RECURSIVE FindTagsFrom(_, _)
FindTagsFrom(sheet, k) ==
  IF k >= max_row(sheet) * max_column(sheet) THEN <<>>
  ELSE LET r_idx == (k \div max_column(sheet)) + 1
           c_idx == (k % max_column(sheet)) + 1
           value == cell(sheet, r_idx, c_idx)
           cell_str == Strip(PyStr(value))
       IN  IF value # NoneV /\ StartsWith(cell_str, <<"~">>)
           THEN <<[row |-> r_idx, col |-> c_idx, value |-> cell_str]>>
                \o FindTagsFrom(sheet, k + 1)
           ELSE FindTagsFrom(sheet, k + 1)

find_tags(sheet) == FindTagsFrom(sheet, 0)

\* --------------------------------------------------------- _parse_tag
\* the index of the first ch in s, 0 when absent
RECURSIVE IndexOfFrom(_, _, _)
IndexOfFrom(s, ch, i) ==
  IF i > Len(s) THEN 0
  ELSE IF s[i] = ch THEN i
  ELSE IndexOfFrom(s, ch, i + 1)

IndexOf(s, ch) == IndexOfFrom(s, ch, 1)

_parse_tag(tag) ==
  LET tag_stripped == Strip(LStripSet(tag, {"~"}))
      colon == IndexOf(tag_stripped, ":")
  IN  IF colon # 0
      THEN [tag_type |-> Lower(Strip(SubSeq(tag_stripped, 1, colon - 1))),
            logical_name |->
              StrV(Strip(SubSeq(tag_stripped, colon + 1, Len(tag_stripped))))]
      ELSE [tag_type |-> Lower(Strip(tag_stripped)), logical_name |-> NoneV]

\* ------------------------------------------------ detect_table_bounds
\* the scan to the right for the first header, 0 for start_search = None
RECURSIVE ScanRightForHeader(_, _, _)
ScanRightForHeader(sheet, header_row, col) ==
  IF col > max_column(sheet) THEN 0
  ELSE IF ~HeaderEmpty(sheet, header_row, col) THEN col
  ELSE ScanRightForHeader(sheet, header_row, col + 1)

\* a scan that starts one column too far to the right
StartSearchSkipsColumn(sheet, tag_row, tag_col) ==
  LET header_row == tag_row + 1
  IN  IF ~HeaderEmpty(sheet, header_row, tag_col)
      THEN tag_col
      ELSE ScanRightForHeader(sheet, header_row, tag_col + 2)

\* the anchor column start_search of a tag, 0 when there is none
StartSearch(sheet, tag_row, tag_col) ==
  LET header_row == tag_row + 1
  IN  IF ~HeaderEmpty(sheet, header_row, tag_col)
      THEN tag_col
      ELSE ScanRightForHeader(sheet, header_row, tag_col + 1)

\* an expansion to the left that never reaches the first column
RECURSIVE ScanLeftStopsEarly(_, _, _)
ScanLeftStopsEarly(sheet, header_row, curr) ==
  IF curr > 2 /\ ~HeaderEmpty(sheet, header_row, curr - 1)
  THEN ScanLeftStopsEarly(sheet, header_row, curr - 1)
  ELSE curr

RECURSIVE ScanLeft(_, _, _)
ScanLeft(sheet, header_row, curr) ==
  IF curr > 1 /\ ~HeaderEmpty(sheet, header_row, curr - 1)
  THEN ScanLeft(sheet, header_row, curr - 1)
  ELSE curr

RECURSIVE ScanRight(_, _, _)
ScanRight(sheet, header_row, curr) ==
  IF curr <= max_column(sheet) /\ ~HeaderEmpty(sheet, header_row, curr + 1)
  THEN ScanRight(sheet, header_row, curr + 1)
  ELSE curr

\* bounds is None: found = FALSE
NoBounds == [found |-> FALSE, start_col |-> 0, end_col |-> 0]

detect_table_bounds(sheet, tag_row, tag_col) ==
  LET header_row == tag_row + 1
      start_search == StartSearch(sheet, tag_row, tag_col)
  IN  IF start_search = 0 THEN NoBounds
      ELSE [found |-> TRUE,
            start_col |-> ScanLeft(sheet, header_row, start_search),
            end_col |-> ScanRight(sheet, header_row, start_search)]

\* ------------------------------------------------------ reading a table
SetMax(S) == CHOOSE x \in S : \A y \in S : y <= x
SetMin(S) == CHOOSE x \in S : \A y \in S : x <= y

\* the header strings of the columns first_col .. last_col
ReadHeaders(sheet, header_row_idx, first_col, last_col) ==
  [i \in 1..(IF last_col >= first_col THEN last_col - first_col + 1 ELSE 0) |->
     LET cell_value == cell(sheet, header_row_idx, first_col + i - 1)
     IN  IF cell_value # NoneV THEN Strip(PyStr(cell_value)) ELSE <<>>]

\* a loop that skips an empty row instead of stopping at it
RECURSIVE ReadDataRowsSkipsEmpty(_, _, _, _)
ReadDataRowsSkipsEmpty(sheet, row_idx, actual_start_col, num_cols) ==
  IF row_idx > max_row(sheet) THEN <<>>
  ELSE LET row_data == [i \in 1..num_cols |->
                          cell(sheet, row_idx, actual_start_col + i - 1)]
           is_empty == \A i \in 1..num_cols : row_data[i] = NoneV
           below == ReadDataRowsSkipsEmpty(sheet, row_idx + 1, actual_start_col,
                                           num_cols)
       IN  IF is_empty THEN below ELSE <<row_data>> \o below

\* the loop over the data rows: it stops at the first row whose cells in the
\* span are all None, or below the sheet's last row
RECURSIVE ReadDataRows(_, _, _, _)
ReadDataRows(sheet, row_idx, actual_start_col, num_cols) ==
  IF row_idx > max_row(sheet) THEN <<>>
  ELSE LET row_data == [i \in 1..num_cols |->
                          cell(sheet, row_idx, actual_start_col + i - 1)]
           is_empty == \A i \in 1..num_cols : row_data[i] = NoneV
       IN  IF is_empty THEN <<>>
           ELSE <<row_data>>
                \o ReadDataRows(sheet, row_idx + 1, actual_start_col, num_cols)

\* the span after the clipping at the nearest tags of the same row
ClipStart(actual_start_col, start_col, other_tag_cols) ==
  LET left_tags == {c \in other_tag_cols : c < start_col}
  IN  IF left_tags # {}
      THEN (IF actual_start_col >= SetMax(left_tags) + 1
            THEN actual_start_col ELSE SetMax(left_tags) + 1)
      ELSE actual_start_col

\* a clipping that keeps the neighbouring tag's own column
ClipEndKeepsTagColumn(actual_end_col, start_col, other_tag_cols) ==
  LET right_tags == {c \in other_tag_cols : c > start_col}
  IN  IF right_tags # {}
      THEN (IF actual_end_col <= SetMin(right_tags)
            THEN actual_end_col ELSE SetMin(right_tags))
      ELSE actual_end_col

ClipEnd(actual_end_col, start_col, other_tag_cols) ==
  LET right_tags == {c \in other_tag_cols : c > start_col}
  IN  IF right_tags # {}
      THEN (IF actual_end_col <= SetMin(right_tags) - 1
            THEN actual_end_col ELSE SetMin(right_tags) - 1)
      ELSE actual_end_col

\* (headers, data_rows), with the span they were read from
NoTable == [headers |-> <<>>, data_rows |-> <<>>, first_col |-> 0, last_col |-> 0]

_read_table_with_boundaries(sheet, start_row, start_col, other_tag_cols) ==
  LET header_row_idx == start_row + 1
      data_start_row == start_row + 2
      bounds == detect_table_bounds(sheet, start_row, start_col)
      actual_start_col == ClipStart(bounds.start_col, start_col, other_tag_cols)
      actual_end_col == ClipEnd(bounds.end_col, start_col, other_tag_cols)
      headers == ReadHeaders(sheet, header_row_idx, actual_start_col, actual_end_col)
  IN  IF ~bounds.found THEN NoTable
      ELSE IF headers = <<>> THEN NoTable
      ELSE [headers |-> headers,
            data_rows |-> ReadDataRows(sheet, data_start_row, actual_start_col,
                                       Len(headers)),
            first_col |-> actual_start_col,
            last_col |-> actual_end_col]

\* --------------------------------------------------- read_table_range
\* Counter(headers)[h] > 1
IsDuplicate(headers, h) ==
  Cardinality({i \in 1..Len(headers) : headers[i] = h}) > 1

\* f"{h}_col{i}", i the zero-based offset of the column within the span
ColSuffix(h, i) == h \o <<"_", "c", "o", "l">> \o IntStr(i)

\* a renaming that leaves the first occurrence of a repeated name alone
UniqueHeadersKeepsFirst(headers) ==
  [j \in 1..Len(headers) |->
     IF \E i \in 1..(j - 1) : headers[i] = headers[j]
     THEN ColSuffix(headers[j], j - 1)
     ELSE headers[j]]

\* the renaming of duplicate headers
UniqueHeaders(headers) ==
  [j \in 1..Len(headers) |->
     IF IsDuplicate(headers, headers[j])
     THEN ColSuffix(headers[j], j - 1)
     ELSE headers[j]]

read_table_range(sheet, start_row, start_col) ==
  LET header_row_idx == start_row + 1
      data_start_row == start_row + 2
      bounds == detect_table_bounds(sheet, start_row, start_col)
      actual_start_col == bounds.start_col
      actual_end_col == bounds.end_col
      headers == ReadHeaders(sheet, header_row_idx, actual_start_col, actual_end_col)
  IN  IF ~bounds.found THEN NoTable
      ELSE IF headers = <<>> THEN NoTable
      ELSE [headers |-> UniqueHeaders(headers),
            data_rows |-> ReadDataRows(sheet, data_start_row, actual_start_col,
                                       Len(headers)),
            first_col |-> actual_start_col,
            last_col |-> actual_end_col]

\* ------------------------------------------------------- scan_workbook
\* tag_positions[row]: the columns of the tags of one row
TagColsOfRow(tags, row) == {tags[i].col : i \in {j \in 1..Len(tags) : tags[j].row = row}}

UcSets == <<"u", "c", "_", "s", "e", "t", "s">>

\* the table dictionary of one tag; first_col, last_col and data_rows are the
\* values of the locals of _read_table_with_boundaries the dictionary is built
\* from, anchor and bounds those of detect_table_bounds
TableDict(sheet, tags, tag_info) ==
  LET parsed == _parse_tag(tag_info.value)
      tag_row == tag_info.row
      tag_col == tag_info.col
      other_tags_on_row == TagColsOfRow(tags, tag_row) \ {tag_col}
      bounds == detect_table_bounds(sheet, tag_row, tag_col)
      read == IF bounds.found
              THEN _read_table_with_boundaries(sheet, tag_row, tag_col,
                                               other_tags_on_row)
              ELSE NoTable
  IN  [tag |-> tag_info.value,
       tag_type |-> parsed.tag_type,
       logical_name |-> parsed.logical_name,
       sheet_name |-> sheet.title,
       tag_row |-> tag_row,
       tag_col |-> tag_col,
       headers |-> read.headers,
       row_count |-> Len(read.data_rows),
       first_col |-> read.first_col,
       last_col |-> read.last_col,
       data_rows |-> read.data_rows,
       anchor |-> StartSearch(sheet, tag_row, tag_col),
       bounds |-> bounds]

\* the mutant of the loop that keeps the uc_sets tags
RECURSIVE ScanTagsKeepsUcSets(_, _, _)
ScanTagsKeepsUcSets(sheet, tags, i) ==
  IF i > Len(tags) THEN <<>>
  ELSE <<TableDict(sheet, tags, tags[i])>> \o ScanTagsKeepsUcSets(sheet, tags, i + 1)

RECURSIVE ScanTags(_, _, _)
ScanTags(sheet, tags, i) ==
  IF i > Len(tags) THEN <<>>
  ELSE IF _parse_tag(tags[i].value).tag_type = UcSets
       THEN ScanTags(sheet, tags, i + 1)
       ELSE <<TableDict(sheet, tags, tags[i])>> \o ScanTags(sheet, tags, i + 1)

RECURSIVE ScanSheets(_, _)
ScanSheets(wb, n) ==
  IF n > Len(wb) THEN <<>>
  ELSE ScanTags(wb[n], find_tags(wb[n]), 1) \o ScanSheets(wb, n + 1)

scan_workbook(wb) == ScanSheets(wb, 1)

\* ---------------------------------------------------------- VedaSchema
\* A schema maps a lowercased tag name to its indexes: fields, the keys of
\* _fields_by_tag (lowercased use_names, in insertion order); alias, the
\* _alias_to_canonical map; query, the fields flagged query_field.
NoCanonical == [k |-> "none", s |-> <<>>]

\* a schema that knows no tag
NoSchema == [x \in {} |-> 0]

get_canonical_name(sch, tag_name, field_name) ==
  LET tag_name_lower == Lower(tag_name)
      field_name_lower == Lower(field_name)
  IN  IF tag_name_lower \notin DOMAIN sch THEN NoCanonical
      ELSE IF field_name_lower \in DOMAIN sch[tag_name_lower].alias
           THEN StrV(sch[tag_name_lower].alias[field_name_lower])
      ELSE IF \E i \in 1..Len(sch[tag_name_lower].fields) :
                sch[tag_name_lower].fields[i] = field_name_lower
           THEN StrV(field_name_lower)
      ELSE NoCanonical

get_primary_keys(sch, tag_name) ==
  LET tag_name_lower == Lower(tag_name)
  IN  IF tag_name_lower \notin DOMAIN sch THEN <<>>
      ELSE SelectSeq(sch[tag_name_lower].fields,
                     LAMBDA f : f \in sch[tag_name_lower].query)

\* ------------------------------------------------------- extract_table
\* the column names after the alias resolution
CanonicalHeaders(sch, tag_type, headers) ==
  [j \in 1..Len(headers) |->
     LET canonical == get_canonical_name(sch, tag_type, headers[j])
     IN  IF canonical # NoCanonical THEN canonical.s ELSE headers[j]]

HasDuplicates(names) ==
  \E i, j \in 1..Len(names) : i < j /\ names[i] = names[j]

\* a null stays the null it is; any other value becomes its stripped string,
\* and the empty string becomes None
NormalizeValue(v) ==
  IF v.k \in {"none", "nan", "na"} THEN v
  ELSE IF Strip(PyStr(v)) = <<>> THEN NoneV
  ELSE StrV(Strip(PyStr(v)))

\* pd.DataFrame(data_rows, columns=canonical_headers): a column of ints and
\* Nones only is a float64 column, its ints floats and its Nones NaN; a
\* column of ints only is int64, and one that holds a string is object and
\* keeps its values
DataFrame(data_rows, columns) ==
  LET Kinds(c) == {data_rows[r][c].k : r \in 1..Len(data_rows)}
      IsFloat64(c) == Kinds(c) = {"int", "none"}
  IN  [columns |-> columns,
       rows |-> [r \in 1..Len(data_rows) |->
                   [c \in 1..Len(columns) |->
                      IF ~IsFloat64(c) THEN data_rows[r][c]
                      ELSE IF data_rows[r][c].k = "int"
                           THEN FloatOfInt(data_rows[r][c])
                           ELSE NaNV]]]

\* result[col] of a repeated column name is a DataFrame, which has no .str:
\* the loop raises AttributeError at the first repeated name
_normalize_values(df) ==
  IF HasDuplicates(df.columns)
  THEN [raised |-> TRUE, columns |-> df.columns, rows |-> df.rows]
  ELSE [raised |-> FALSE,
        columns |-> df.columns,
        rows |-> [r \in 1..Len(df.rows) |->
                    [c \in 1..Len(df.columns) |-> NormalizeValue(df.rows[r][c])]]]

SheetNames(wb) == {wb[n].title : n \in 1..Len(wb)}
SheetNamed(wb, name) == wb[CHOOSE n \in 1..Len(wb) : wb[n].title = name]

EmptyFrame == [raised |-> FALSE, columns |-> <<>>, rows |-> <<>>]

extract_table(wb, table_meta, sch) ==
  IF table_meta.sheet_name \notin SheetNames(wb)
  THEN [raised |-> TRUE, columns |-> <<>>, rows |-> <<>>]
  ELSE LET sheet == SheetNamed(wb, table_meta.sheet_name)
           read == read_table_range(sheet, table_meta.tag_row, table_meta.tag_col)
           canonical_headers ==
             CanonicalHeaders(sch, table_meta.tag_type, read.headers)
       IN  IF read.headers = <<>> THEN EmptyFrame
           ELSE _normalize_values(DataFrame(read.data_rows, canonical_headers))

\* ------------------------------------------------ sort_by_primary_keys
\* the position of a column name in a list of names
ColIndex(columns, name) == CHOOSE i \in 1..Len(columns) : columns[i] = name

InColumns(columns, name) == \E i \in 1..Len(columns) : columns[i] = name

\* df.empty: no row or no column
DfEmpty(df) == Len(df.rows) = 0 \/ Len(df.columns) = 0

\* astype(str).replace("nan", pd.NA).replace("<NA>", pd.NA) of one value
PkValue(v) ==
  IF PyStr(v) = <<"n", "a", "n">> \/ PyStr(v) = <<"<", "N", "A", ">">>
  THEN NAV
  ELSE StrV(PyStr(v))

\* the order sort_values puts on one key column: strings by codepoint, NA last
ValLess(a, b) ==
  IF a = NAV THEN FALSE
  ELSE IF b = NAV THEN TRUE
  ELSE StrLess(a.s, b.s)

\* row_a sorts before row_b on the key columns idxs, compared in turn
RECURSIVE KeyLess(_, _, _)
KeyLess(row_a, row_b, idxs) ==
  IF idxs = <<>> THEN FALSE
  ELSE IF ValLess(row_a[Head(idxs)], row_b[Head(idxs)]) THEN TRUE
  ELSE IF ValLess(row_b[Head(idxs)], row_a[Head(idxs)]) THEN FALSE
  ELSE KeyLess(row_a, row_b, Tail(idxs))

\* an unstable sort: a row goes in front of the rows it ties with
RECURSIVE InsertBeforeTies(_, _, _)
InsertBeforeTies(sorted, row, idxs) ==
  IF sorted = <<>> THEN <<row>>
  ELSE IF ~KeyLess(Head(sorted), row, idxs)
       THEN <<row>> \o sorted
       ELSE <<Head(sorted)>> \o InsertBeforeTies(Tail(sorted), row, idxs)

\* kind="stable": a row goes behind the rows it does not sort before
RECURSIVE InsertStable(_, _, _)
InsertStable(sorted, row, idxs) ==
  IF sorted = <<>> THEN <<row>>
  ELSE IF KeyLess(row, Head(sorted), idxs)
       THEN <<row>> \o sorted
       ELSE <<Head(sorted)>> \o InsertStable(Tail(sorted), row, idxs)

\* sort_values(by=valid_pks, kind="stable", na_position="last")
RECURSIVE SortValues(_, _)
SortValues(rows, idxs) ==
  IF rows = <<>> THEN <<>>
  ELSE InsertStable(SortValues(SubSeq(rows, 1, Len(rows) - 1), idxs),
                    rows[Len(rows)], idxs)

\* the declared keys that are columns of the frame
ValidPks(df, primary_keys) ==
  SelectSeq(primary_keys, LAMBDA pk : InColumns(df.columns, pk))

\* a sort that falls back to every column as the key, with a warning, when a
\* declared key is not a column
SortFallsBackToAllColumns(df, primary_keys) ==
  LET all_cols == [c \in 1..Len(df.columns) |-> c]
      as_keys == [r \in 1..Len(df.rows) |->
                    [c \in 1..Len(df.columns) |-> PkValue(df.rows[r][c])]]
      sorted == SortValues(as_keys, all_cols)
      filled == [r \in 1..Len(sorted) |->
                   [c \in 1..Len(df.columns) |->
                      IF sorted[r][c] = NAV THEN StrV(<<>>) ELSE sorted[r][c]]]
  IN  IF DfEmpty(df) THEN [df |-> df, warned |-> FALSE]
      ELSE IF primary_keys = <<>> THEN [df |-> df, warned |-> FALSE]
      ELSE [df |-> [columns |-> df.columns, rows |-> filled],
            warned |-> Len(ValidPks(df, primary_keys)) < Len(primary_keys)]

\* the frame returned, and whether the missing-key warning was logged
sort_by_primary_keys(df, primary_keys) ==
  LET valid_pks == ValidPks(df, primary_keys)
      idxs == [i \in 1..Len(valid_pks) |-> ColIndex(df.columns, valid_pks[i])]
      is_pk == [c \in 1..Len(df.columns) |-> \E i \in 1..Len(idxs) : idxs[i] = c]
      as_keys == [r \in 1..Len(df.rows) |->
                    [c \in 1..Len(df.columns) |->
                       IF is_pk[c] THEN PkValue(df.rows[r][c]) ELSE df.rows[r][c]]]
      sorted == SortValues(as_keys, idxs)
      filled == [r \in 1..Len(sorted) |->
                   [c \in 1..Len(df.columns) |->
                      IF is_pk[c] /\ sorted[r][c] = NAV
                      THEN StrV(<<>>)
                      ELSE sorted[r][c]]]
  IN  IF DfEmpty(df) THEN [df |-> df, warned |-> FALSE]
      ELSE IF primary_keys = <<>> THEN [df |-> df, warned |-> FALSE]
      ELSE IF valid_pks = <<>> THEN [df |-> df, warned |-> FALSE]
      ELSE [df |-> [columns |-> df.columns, rows |-> filled],
            warned |-> Len(valid_pks) < Len(primary_keys)]

\* ---------------------------------------------- write_deterministic_csv
\* the text to_csv writes for one value: na_rep = "" for a null
CsvField(v) == IF v.k = "str" THEN v.s ELSE <<>>

\* the file written (its header and its rows of fields), and the warning
write_deterministic_csv(df, primary_keys, column_order) ==
  LET sorted == sort_by_primary_keys(df, primary_keys)
      idxs == [i \in 1..Len(column_order) |->
                 ColIndex(sorted.df.columns, column_order[i])]
  IN  [header |-> column_order,
       rows |-> [r \in 1..Len(sorted.df.rows) |->
                   [i \in 1..Len(idxs) |-> CsvField(sorted.df.rows[r][idxs[i]])]],
       warned |-> sorted.warned]

\* pd.read_csv(csv_path, dtype=str, keep_default_na=False): every field is a
\* string, the empty field the empty string
read_csv(file) ==
  [columns |-> file.header,
   rows |-> [r \in 1..Len(file.rows) |->
               [c \in 1..Len(file.header) |-> StrV(file.rows[r][c])]]]

\* ----------------------------------------------------------------- ids
\* re.sub(r"\s+", " ", name)
RECURSIVE CollapseSpaces(_)
CollapseSpaces(s) ==
  IF s = <<>> THEN <<>>
  ELSE IF IsSpaceCh(Head(s))
       THEN <<" ">> \o CollapseSpaces(LStripSet(Tail(s), {" "}))
       ELSE <<Head(s)>> \o CollapseSpaces(Tail(s))

\* a normalization that turns every space into an underscore of its own
NormalizeNameKeepsRuns(name) ==
  LET lowered == Lower(Strip(name))
  IN  [i \in 1..Len(lowered) |->
         IF IsLowerCh(lowered[i]) \/ IsDigitCh(lowered[i]) THEN lowered[i]
         ELSE "_"]

_normalize_name(name) ==
  LET lowered == Lower(Strip(name))
      collapsed == CollapseSpaces(lowered)
      underscored == [i \in 1..Len(collapsed) |->
                        IF collapsed[i] = " " THEN "_" ELSE collapsed[i]]
  IN  [i \in 1..Len(underscored) |->
         IF IsLowerCh(underscored[i]) \/ IsDigitCh(underscored[i])
            \/ underscored[i] = "_"
         THEN underscored[i]
         ELSE "_"]

\* bool(logical_name): neither None nor the empty string
Truthy(v) == v.k = "str" /\ v.s # <<>>

Sep2 == <<"_", "_">>

\* an id that also carries the cell of the tag
TableIdWithPosition(tag_type, logical_name, workbook_id, sheet_name, tag_position, veda_tag_text) ==
  workbook_id \o Sep2 \o _normalize_name(sheet_name) \o Sep2 \o Upper(tag_type)
  \o Sep2 \o tag_position

generate_table_id(tag_type, logical_name, workbook_id, sheet_name, tag_position, veda_tag_text) ==
  LET tag_upper == Upper(tag_type)
      sheet_safe == _normalize_name(sheet_name)
  IN  IF Truthy(logical_name)
      THEN workbook_id \o Sep2 \o sheet_safe \o Sep2 \o tag_upper \o Sep2
           \o _normalize_name(logical_name.s)
      ELSE workbook_id \o Sep2 \o sheet_safe \o Sep2 \o tag_upper

\* 1 -> A, 27 -> AA
RECURSIVE ColLetters(_)
ColLetters(col) ==
  IF col < 0 THEN <<>>
  ELSE ColLetters((col \div 26) - 1) \o <<Chr((col % 26) + 65)>>

_col_to_letter(col) == ColLetters(col - 1)

\* the tag_position extract_deck computes for a scanned table
TagPosition(table_info) ==
  _col_to_letter(table_info.tag_col) \o IntStr(table_info.tag_row)

\* the table_id extract_deck gives a scanned table
TableIdOf(workbook_id, table_info) ==
  generate_table_id(table_info.tag_type, table_info.logical_name, workbook_id,
                    table_info.sheet_name, TagPosition(table_info), table_info.tag)

\* -------------------------------------------------------------- state
VARIABLES
  workbook,      \* the workbook being extracted: its worksheets
  schema,        \* the VedaSchema indexes
  pc,            \* "start", then "scanned", "extracted" (the scanner and the
                 \* parser) or "written", "formatted" (the serializer)
  tables,        \* what scan_workbook returned
  frames,        \* per scanned table: its table_id, what read_table_range
                 \* read for it and what extract_table returned
  df,            \* the DataFrame of the table being serialized
  schema_pks,    \* schema.get_primary_keys(tag_type) of that table
  csv_file,      \* the table's CSV file: its header and its rows of fields
  table_meta,    \* the table's entry in the index: columns, primary_keys
  warned,        \* whether the last sort logged the missing-key warning
  deck,          \* the workbook files under the deck root: path -> content
  shadow,        \* the CSV files under the shadow directory: csv_path -> file
  index_file,    \* what the path of tables_index.json holds
  index,         \* the TablesIndex in memory
  now,           \* the clock the timestamps are read from
  tmp_file,      \* the temporary file of TablesIndexIO.write
  loaded,        \* what TablesIndexIO.read returned
  diff_in,       \* diff_decks: the index files of the two decks, the output
  diff_out,      \* diff_decks: the diff, what was written, the status
  validation,    \* validate_deck: the errors, the warnings and the status
  worktrees      \* diff_commits: the worktrees git has registered, the
                 \* directories on disk and how far the command is

vars == <<workbook, schema, pc, tables, frames, df, schema_pks, csv_file,
          table_meta, warned, deck, shadow, index_file, index, now,
          tmp_file, loaded, diff_in, diff_out, validation, worktrees>>

deck_vars == <<deck, shadow, index_file, index, now>>
io_vars == <<tmp_file, loaded>>
diff_vars == <<diff_in, diff_out>>
cmd_vars == <<validation, worktrees>>

scan_vars == <<workbook, schema, tables, frames>>
csv_vars == <<df, schema_pks, csv_file, table_meta, warned>>

\* hashlib.sha256 of the bytes of a file: equal for equal content, and no
\* two contents of the model collide
Sha256(content) == [sha256 |-> content]

NoFile == [header |-> <<>>, rows |-> <<>>, exists |-> FALSE]
NoMeta ==
  [columns |-> <<>>, primary_keys |-> <<>>, row_count |-> 0,
   csv_sha256 |-> Sha256(<<>>)]

\* nothing is being serialized
CsvIdle ==
  /\ df = EmptyFrame
  /\ schema_pks = <<>>
  /\ csv_file = NoFile
  /\ table_meta = NoMeta
  /\ warned = FALSE

\* nothing is being scanned
ScanIdle ==
  /\ workbook = <<>>
  /\ schema = NoSchema
  /\ tables = <<>>
  /\ frames = <<>>

\* TablesIndex.create_empty, with the clock's reading as generated_at
EmptyIndex(at) ==
  [version |-> 1,
   generator |-> "times-tables/0.1.0",
   generated_at |-> at,
   workbooks |-> <<>>,
   tables |-> <<>>]

\* no file at a path
NoIndexFile == [exists |-> FALSE, complete |-> FALSE]

\* no index is being written or read
IoIdle ==
  /\ tmp_file = NoIndexFile
  /\ loaded = [found |-> FALSE]

\* no decks are being compared
DiffIdle ==
  /\ diff_in = <<>>
  /\ diff_out = <<>>

\* no deck is being validated and no commits are being compared
CmdIdle ==
  /\ validation = <<>>
  /\ worktrees = <<>>

\* no deck is being extracted
DeckIdle ==
  /\ deck = <<>>
  /\ shadow = <<>>
  /\ index_file = NoIndexFile
  /\ index = EmptyIndex(0)
  /\ now = 0

\* the workbook_id of the one workbook of the model (the stem of its path)
WorkbookId == <<"b">>

\* scanner.scan_workbook(workbook)
ScanWorkbook ==
  /\ pc = "start"
  /\ tables' = scan_workbook(workbook)
  /\ pc' = "scanned"
  /\ UNCHANGED <<workbook, schema, frames>>
  /\ UNCHANGED csv_vars
  /\ UNCHANGED deck_vars
  /\ UNCHANGED io_vars
  /\ UNCHANGED diff_vars
  /\ UNCHANGED cmd_vars

\* the loop of extract_deck over the scanned tables, up to extract_table
ExtractTables ==
  /\ pc = "scanned"
  /\ frames' = [i \in 1..Len(tables) |->
                  [table_id |-> TableIdOf(WorkbookId, tables[i]),
                   tag_position |-> TagPosition(tables[i]),
                   read |-> read_table_range(
                              SheetNamed(workbook, tables[i].sheet_name),
                              tables[i].tag_row, tables[i].tag_col),
                   df |-> extract_table(workbook, tables[i], schema)]]
  /\ pc' = "extracted"
  /\ UNCHANGED <<workbook, schema, tables>>
  /\ UNCHANGED csv_vars
  /\ UNCHANGED deck_vars
  /\ UNCHANGED io_vars
  /\ UNCHANGED diff_vars
  /\ UNCHANGED cmd_vars

NextScan == ScanWorkbook \/ ExtractTables

\* extract_deck, from the choice of the primary keys to the index entry, for
\* one extracted table
WriteCsv ==
  /\ pc = "start"
  /\ LET primary_keys == IF schema_pks = <<>> THEN df.columns ELSE schema_pks
         written == write_deterministic_csv(df, primary_keys, df.columns)
     IN  /\ csv_file' = [header |-> written.header, rows |-> written.rows,
                         exists |-> TRUE]
         /\ warned' = written.warned
         /\ table_meta' = [columns |-> df.columns,
                           primary_keys |-> primary_keys,
                           row_count |-> Len(df.rows),
                           csv_sha256 |-> Sha256([header |-> written.header,
                                                  rows |-> written.rows])]
  /\ pc' = "written"
  /\ UNCHANGED <<df, schema_pks>>
  /\ UNCHANGED scan_vars
  /\ UNCHANGED deck_vars
  /\ UNCHANGED io_vars
  /\ UNCHANGED diff_vars
  /\ UNCHANGED cmd_vars

\* the body of format_deck's loop for the table: a file of at most one byte
\* and a table without rows are skipped, any other is written again and its
\* hash in the index updated
FormatTable ==
  /\ pc \in {"written", "prepared", "formatted"}
  /\ csv_file.exists
  /\ LET read == read_csv(csv_file)
         from_meta == IF table_meta.primary_keys # <<>>
                      THEN table_meta.primary_keys
                      ELSE schema_pks
         primary_keys == IF from_meta = <<>> THEN read.columns ELSE from_meta
         missing_cols == {i \in 1..Len(table_meta.columns) :
                            ~InColumns(read.columns, table_meta.columns[i])}
         column_order == IF missing_cols # {} THEN read.columns
                         ELSE table_meta.columns
         written == write_deterministic_csv(read, primary_keys, column_order)
     IN  IF csv_file.header = <<>> \/ DfEmpty(read)
         THEN UNCHANGED <<csv_file, warned, table_meta>>
         ELSE /\ csv_file' = [header |-> written.header, rows |-> written.rows,
                              exists |-> TRUE]
              /\ warned' = written.warned
              /\ table_meta' =
                   [table_meta EXCEPT !.csv_sha256 =
                      Sha256([header |-> written.header, rows |-> written.rows])]
  /\ pc' = "formatted"
  /\ UNCHANGED <<df, schema_pks>>
  /\ UNCHANGED scan_vars
  /\ UNCHANGED deck_vars
  /\ UNCHANGED io_vars
  /\ UNCHANGED diff_vars
  /\ UNCHANGED cmd_vars

NextCsv == WriteCsv \/ FormatTable

\* ------------------------------------------------------------ the deck
\* a path under the deck root: the names of its directories and its file name
DeckPath(dir, name) == [dir |-> dir, name |-> name]

\* str.rfind("."): the last position of a dot, 0 if there is none
LastDot(name) ==
  LET dots == {i \in 1..Len(name) : name[i] = "."}
  IN  IF dots = {} THEN 0 ELSE SetMax(dots)

\* Path(file_path).stem: the name without its last suffix; a leading or a
\* trailing dot starts no suffix
Stem(name) ==
  LET i == LastDot(name)
  IN  IF 1 < i /\ i < Len(name) THEN SubSeq(name, 1, i - 1) ELSE name

generate_workbook_id(file_path) == Stem(file_path.name)

EndsWith(s, suffix) ==
  Len(s) >= Len(suffix) /\ SubSeq(s, Len(s) - Len(suffix) + 1, Len(s)) = suffix

\* Path.glob(prefix + "*" + suffix) on a file name
GlobMatch(name, prefix, suffix) ==
  /\ Len(name) >= Len(prefix) + Len(suffix)
  /\ StartsWith(name, prefix)
  /\ EndsWith(name, suffix)

Xlsx == <<".", "x", "l", "s", "x">>
Xls == <<".", "x", "l", "s">>
SuppXLS == <<"S", "u", "p", "p", "X", "L", "S">>
Trades == <<"T", "r", "a", "d", "e", "s">>
SubRES_Tmpl == <<"S", "u", "b", "R", "E", "S", "_", "T", "m", "p", "l">>
Scen_ == <<"S", "c", "e", "n", "_">>
Scen == <<"S", "c", "e", "n">>
SubRES_ == <<"S", "u", "b", "R", "E", "S", "_">>

\* the workbooks extract_deck discovers among the files of a deck
DiscoverWorkbooks(files) ==
  LET excel(name, prefix) ==
        GlobMatch(name, prefix, Xlsx) \/ GlobMatch(name, prefix, Xls)
  IN  {f \in files :
         \/ f.dir = <<>> /\ excel(f.name, <<>>)
         \/ f.dir = <<SuppXLS>> /\ excel(f.name, Scen_)
         \/ f.dir = <<SuppXLS, Trades>> /\ excel(f.name, Scen)
         \/ f.dir = <<SubRES_Tmpl>> /\ excel(f.name, SubRES_)}

\* the order of two paths: part by part, each part by codepoint
RECURSIVE PartsLess(_, _)
PartsLess(a, b) ==
  IF b = <<>> THEN FALSE
  ELSE IF a = <<>> THEN TRUE
  ELSE IF Head(a) # Head(b) THEN StrLess(Head(a), Head(b))
  ELSE PartsLess(Tail(a), Tail(b))

PathLess(f, g) == PartsLess(Append(f.dir, f.name), Append(g.dir, g.name))

\* sorted(workbook_paths)
RECURSIVE SortedPaths(_)
SortedPaths(paths) ==
  IF paths = {} THEN <<>>
  ELSE LET first == CHOOSE f \in paths : \A g \in paths \ {f} : PathLess(f, g)
       IN  <<first>> \o SortedPaths(paths \ {first})

\* f"sha256:{workbook_hash}"
HashKey(content) == <<"sha256:", Sha256(content)>>

\* TableMeta.composite_key
composite_key(meta) == meta.workbook_id \o <<"/">> \o meta.table_id

\* TablesIndex.add_workbook: the workbooks are a dict keyed by workbook_id
add_workbook(idx, meta) ==
  [idx EXCEPT !.workbooks =
     [w \in (DOMAIN idx.workbooks) \cup {meta.workbook_id} |->
        IF w = meta.workbook_id THEN meta ELSE idx.workbooks[w]]]

\* TablesIndex.add_table: the tables are a dict keyed by composite key, in
\* the order the keys were first added
add_table(idx, meta) ==
  LET at == {k \in 1..Len(idx.tables) :
               composite_key(idx.tables[k]) = composite_key(meta)}
  IN  [idx EXCEPT !.tables =
         IF at = {} THEN Append(idx.tables, meta)
         ELSE [k \in 1..Len(idx.tables) |->
                 IF k \in at THEN meta ELSE idx.tables[k]]]

\* TablesIndex.to_dict: the workbooks by id, the tables as a list
to_dict(idx) ==
  [version |-> idx.version,
   generator |-> idx.generator,
   generated_at |-> idx.generated_at,
   workbooks |-> idx.workbooks,
   tables |-> idx.tables]

\* the dict comprehension of from_dict over the list of tables: a key that
\* comes again keeps its place and takes the later table
RECURSIVE TablesFromList(_, _)
TablesFromList(tables_data, n) ==
  IF n = 0 THEN <<>>
  ELSE LET before == TablesFromList(tables_data, n - 1)
           table == tables_data[n]
           key == table.workbook_id \o <<"/">> \o table.table_id
           at == {k \in 1..Len(before) :
                    before[k].workbook_id \o <<"/">> \o before[k].table_id = key}
       IN  IF at = {} THEN Append(before, table)
           ELSE [k \in 1..Len(before) |-> IF k \in at THEN table ELSE before[k]]

\* a from_dict that keys the tables by table_id alone
FromDictKeyedByTableId(data) ==
  [version |-> data.version,
   generator |-> data.generator,
   generated_at |-> data.generated_at,
   workbooks |-> data.workbooks,
   tables |-> SelectSeq(data.tables,
                LAMBDA t : \A k \in 1..Len(data.tables) :
                  data.tables[k].table_id = t.table_id => data.tables[k] = t)]

\* TablesIndex.from_dict
from_dict(data) ==
  [version |-> data.version,
   generator |-> data.generator,
   generated_at |-> data.generated_at,
   workbooks |-> data.workbooks,
   tables |-> TablesFromList(data.tables, Len(data.tables))]

\* the path of a table's CSV file, relative to the shadow directory
CsvPath(workbook_id, table_id) ==
  <<<<"t", "a", "b", "l", "e", "s">>, workbook_id,
    table_id \o <<".", "c", "s", "v">>>>

\* one statement after another: F of the value v has, v computed once
Then(v, F(_)) == CHOOSE r \in {F(x) : x \in {v}} : TRUE

\* a reuse that copies the tables of every workbook of the previous index
RECURSIVE CopyTablesOfAnyWorkbook(_, _, _, _, _)
CopyTablesOfAnyWorkbook(idx, prev_tables, k, prev_workbook_id, files) ==
  IF k > Len(prev_tables) THEN [index |-> idx, complete |-> TRUE]
  ELSE IF prev_tables[k].csv_path \in DOMAIN files
  THEN Then(add_table(idx, prev_tables[k]),
            LAMBDA x : CopyTablesOfAnyWorkbook(x, prev_tables, k + 1,
                                               prev_workbook_id, files))
  ELSE [index |-> idx, complete |-> FALSE]

\* the reuse of an unchanged workbook: the tables of the previous index with
\* its workbook_id are copied, in order, until one has no CSV file
RECURSIVE CopyTables(_, _, _, _, _)
CopyTables(idx, prev_tables, k, prev_workbook_id, files) ==
  IF k > Len(prev_tables) THEN [index |-> idx, complete |-> TRUE]
  ELSE IF prev_tables[k].workbook_id # prev_workbook_id
  THEN CopyTables(idx, prev_tables, k + 1, prev_workbook_id, files)
  ELSE IF prev_tables[k].csv_path \in DOMAIN files
  THEN Then(add_table(idx, prev_tables[k]),
            LAMBDA x : CopyTables(x, prev_tables, k + 1, prev_workbook_id, files))
  ELSE [index |-> idx, complete |-> FALSE]

\* the primary keys of a table: the schema's for its tag type, all the
\* columns of the frame when the schema has none
PrimaryKeysOf(sch, table_info, frame) ==
  LET declared == get_primary_keys(sch, table_info.tag_type)
  IN  IF declared = <<>> THEN frame.columns ELSE declared

\* the TableMeta of an extracted table
TableMetaOf(workbook_id, table_id, table_info, frame, primary_keys, csv, at) ==
  [table_id |-> table_id,
   workbook_id |-> workbook_id,
   sheet_name |-> table_info.sheet_name,
   tag |-> table_info.tag,
   tag_type |-> table_info.tag_type,
   logical_name |-> table_info.logical_name,
   tag_position |-> TagPosition(table_info),
   columns |-> frame.columns,
   primary_keys |-> primary_keys,
   row_count |-> Len(frame.rows),
   csv_path |-> CsvPath(workbook_id, table_id),
   csv_sha256 |-> Sha256(csv),
   extracted_at |-> at,
   schema_version |-> "veda-tags-2024"]

\* the CSV file of a table written under its csv_path and the table added
\* to the index
StoreTable(acc, meta, csv) ==
  [index |-> add_table(acc.index, meta),
   shadow |-> [q \in (DOMAIN acc.shadow) \cup {meta.csv_path} |->
                 IF q = meta.csv_path THEN csv ELSE acc.shadow[q]],
   raised |-> FALSE]

\* whether to_csv can open workbook_dir / f"{table_id}.csv": a "/" in the
\* table_id names a directory that extract_deck never makes
CsvWritable(table_id) == \A i \in 1..Len(table_id) : table_id[i] # "/"

\* write_deterministic_csv of the frame and the index entry of the table;
\* the write is under no try, what it raises leaves extract_deck
WriteTable(acc, workbook_id, table_id, table_info, frame, primary_keys, at) ==
  IF ~CsvWritable(table_id) THEN [acc EXCEPT !.raised = TRUE]
  ELSE
  Then(write_deterministic_csv(frame, primary_keys, frame.columns),
       LAMBDA written :
         Then([header |-> written.header, rows |-> written.rows],
              LAMBDA csv :
                StoreTable(acc,
                           TableMetaOf(workbook_id, table_id, table_info, frame,
                                       primary_keys, csv, at),
                           csv)))

\* the body of the loop over the scanned tables: a table whose extraction
\* raises is skipped, every other is written and indexed
ExtractOne(acc, wb, table_info, workbook_id, sch, at) ==
  Then(extract_table(wb, table_info, sch),
       LAMBDA frame :
         IF frame.raised THEN acc
         ELSE Then(PrimaryKeysOf(sch, table_info, frame),
                   LAMBDA primary_keys :
                     WriteTable(acc, workbook_id, TableIdOf(workbook_id, table_info),
                                table_info, frame, primary_keys, at)))

\* the loop of extract_deck over the tables scan_workbook found
RECURSIVE ExtractScanned(_, _, _, _, _, _, _)
ExtractScanned(acc, wb, scanned, k, workbook_id, sch, at) ==
  IF k > Len(scanned) \/ acc.raised THEN acc
  ELSE Then(ExtractOne(acc, wb, scanned[k], workbook_id, sch, at),
            LAMBDA x : ExtractScanned(x, wb, scanned, k + 1, workbook_id, sch, at))

\* the body of extract_deck's loop for one workbook file
ProcessWorkbook(acc, file_path, content, prev, sch, at) ==
  LET hash_key == HashKey(content)
      known == IF prev.found
               THEN {w \in DOMAIN prev.index.workbooks :
                       /\ prev.index.workbooks[w].source_path = file_path
                       /\ prev.index.workbooks[w].hash = hash_key}
               ELSE {}
      prev_workbook_id == prev.index.workbooks[CHOOSE w \in known : TRUE].workbook_id
      reuse == CopyTables(add_workbook(acc.index,
                                       prev.index.workbooks[prev_workbook_id]),
                          prev.index.tables, 1, prev_workbook_id, acc.shadow)
      base == IF known # {} THEN reuse.index ELSE acc.index
      workbook_id == generate_workbook_id(file_path)
      workbook_meta == [workbook_id |-> workbook_id,
                        source_path |-> file_path,
                        hash |-> hash_key]
      added == [index |-> add_workbook(base, workbook_meta), shadow |-> acc.shadow,
                raised |-> FALSE]
  IN  IF known # {} /\ reuse.complete
      THEN [index |-> reuse.index, shadow |-> acc.shadow, raised |-> FALSE]
      ELSE IF content.corrupt THEN added
      ELSE Then(added,
                LAMBDA x : Then(scan_workbook(content.sheets),
                                LAMBDA scanned :
                                  ExtractScanned(x, content.sheets, scanned, 1,
                                                 workbook_id, sch, at)))

\* the loop of extract_deck over the sorted workbook paths
RECURSIVE ProcessWorkbooks(_, _, _, _, _, _, _)
ProcessWorkbooks(acc, files, paths, k, prev, sch, at) ==
  IF k > Len(paths) \/ acc.raised THEN acc
  ELSE Then(ProcessWorkbook(acc, paths[k], files[paths[k]], prev, sch, at),
            LAMBDA x : ProcessWorkbooks(x, files, paths, k + 1, prev, sch, at))

\* TablesIndexIO.read of the previous index, if there is one; a file that
\* is no complete JSON document fails to load and counts as none
PreviousIndex(file) ==
  IF file.exists /\ file.complete
  THEN [found |-> TRUE, index |-> from_dict(file.doc)]
  ELSE [found |-> FALSE, index |-> EmptyIndex(0)]

\* extract_deck: the index it returns and the CSV files it leaves, or that
\* it raised and the CSV files it had written by then
extract_deck(files, csv_files, previous_file, sch, at) ==
  Then(PreviousIndex(previous_file),
       LAMBDA prev :
         Then(SortedPaths(DiscoverWorkbooks(DOMAIN files)),
              LAMBDA paths :
                ProcessWorkbooks([index |-> EmptyIndex(at), shadow |-> csv_files,
                                  raised |-> FALSE],
                                 files, paths, 1, prev, sch, at)))

\* one run of extract_deck on the deck, the index written at the end
ExtractDeck ==
  /\ pc \in {"deck", "indexed", "edited", "aborted", "formatted"}
  /\ now < MaxClock
  /\ \E run \in {extract_deck(deck, shadow, index_file, schema, now + 1)} :
         /\ shadow' = run.shadow
         /\ IF run.raised
            THEN /\ UNCHANGED <<index, index_file>>
                 /\ pc' = "aborted"
            ELSE /\ index' = run.index
                 /\ index_file' = [exists |-> TRUE, complete |-> TRUE,
                                    doc |-> to_dict(run.index)]
                 /\ pc' = "indexed"
  /\ now' = now + 1
  /\ UNCHANGED deck
  /\ UNCHANGED scan_vars
  /\ UNCHANGED csv_vars
  /\ UNCHANGED io_vars
  /\ UNCHANGED diff_vars
  /\ UNCHANGED cmd_vars

\* ------------------------------------------------------------ the diff
\* sorted() of a set of strings
RECURSIVE SortedStrings(_)
SortedStrings(S) ==
  IF S = {} THEN <<>>
  ELSE LET least == CHOOSE x \in S : \A y \in S \ {x} : StrLess(x, y)
       IN  <<least>> \o SortedStrings(S \ {least})

\* index.tables.keys()
TableKeys(idx) == {composite_key(idx.tables[k]) : k \in 1..Len(idx.tables)}

\* index.tables[key]
TableOf(idx, key) ==
  idx.tables[CHOOSE k \in 1..Len(idx.tables) : composite_key(idx.tables[k]) = key]

\* _load_index: raises when the file is missing or is no valid index
_load_index(file) ==
  IF file.exists /\ file.complete
  THEN [raised |-> FALSE, index |-> from_dict(file.doc)]
  ELSE [raised |-> TRUE, index |-> EmptyIndex(0)]

\* a diff that takes the sides of the comparison for each other
ComputeDiffSwapsSides(index_a, index_b) ==
  LET tables_a == TableKeys(index_a)
      tables_b == TableKeys(index_b)
      common == SortedStrings(tables_a \cap tables_b)
      differs(key) == TableOf(index_a, key).csv_sha256 # TableOf(index_b, key).csv_sha256
  IN  [added |-> SortedStrings(tables_a \ tables_b),
       removed |-> SortedStrings(tables_b \ tables_a),
       modified |-> SelectSeq(common, differs),
       unchanged |-> SelectSeq(common, LAMBDA key : ~differs(key))]

\* report.compute_diff: the four sorted lists of keys
compute_diff(index_a, index_b) ==
  LET tables_a == TableKeys(index_a)
      tables_b == TableKeys(index_b)
      common == SortedStrings(tables_a \cap tables_b)
      differs(key) == TableOf(index_a, key).csv_sha256 # TableOf(index_b, key).csv_sha256
  IN  [added |-> SortedStrings(tables_b \ tables_a),
       removed |-> SortedStrings(tables_a \ tables_b),
       modified |-> SelectSeq(common, differs),
       unchanged |-> SelectSeq(common, LAMBDA key : ~differs(key))]

\* diff._compute_diff: the lists of added and removed keys, the modified
\* tables with their changes, and the counts
_compute_diff(index_a, index_b) ==
  LET tables_a == TableKeys(index_a)
      tables_b == TableKeys(index_b)
      added == SortedStrings(tables_b \ tables_a)
      removed == SortedStrings(tables_a \ tables_b)
      common == SortedStrings(tables_a \cap tables_b)
      differs(key) == TableOf(index_a, key).csv_sha256 # TableOf(index_b, key).csv_sha256
      changed == SelectSeq(common, differs)
      unchanged == SelectSeq(common, LAMBDA key : ~differs(key))
      modified == [k \in 1..Len(changed) |->
                     [table_id |-> changed[k],
                      changes |->
                        [row_count |-> [a |-> TableOf(index_a, changed[k]).row_count,
                                        b |-> TableOf(index_b, changed[k]).row_count],
                         csv_hash |-> [a |-> TableOf(index_a, changed[k]).csv_sha256,
                                       b |-> TableOf(index_b, changed[k]).csv_sha256]]]]
  IN  [tables_added |-> added,
       tables_removed |-> removed,
       tables_modified |-> modified,
       summary |-> [total_tables_a |-> Len(index_a.tables),
                    total_tables_b |-> Len(index_b.tables),
                    added |-> Len(added),
                    removed |-> Len(removed),
                    modified |-> Len(modified),
                    unchanged |-> Len(unchanged)]]

NoDiff == [computed |-> FALSE]

\* a diff_decks that reports only added and removed tables in its status
DiffDecksIgnoresModified(index_a_file, index_b_file, output) ==
  LET a == _load_index(index_a_file)
      b == _load_index(index_b_file)
      diff_result == _compute_diff(a.index, b.index)
  IN  IF a.raised \/ b.raised
      THEN [status |-> 1, diff |-> NoDiff, written |-> FALSE]
      ELSE IF output = "unwritable"
      THEN [status |-> 1, diff |-> [computed |-> TRUE, result |-> diff_result],
            written |-> FALSE]
      ELSE [status |-> IF diff_result.summary.added > 0
                          \/ diff_result.summary.removed > 0
                       THEN 1 ELSE 0,
            diff |-> [computed |-> TRUE, result |-> diff_result],
            written |-> TRUE]

\* diff_decks: the status it returns, the diff it computed and whether the
\* diff reached its output (a file, or stdout when output is None)
diff_decks(index_a_file, index_b_file, output) ==
  LET a == _load_index(index_a_file)
      b == _load_index(index_b_file)
      diff_result == _compute_diff(a.index, b.index)
      has_changes == \/ diff_result.summary.added > 0
                     \/ diff_result.summary.removed > 0
                     \/ diff_result.summary.modified > 0
  IN  IF a.raised \/ b.raised
      THEN [status |-> 1, diff |-> NoDiff, written |-> FALSE]
      ELSE IF output = "unwritable"
      THEN [status |-> 1, diff |-> [computed |-> TRUE, result |-> diff_result],
            written |-> FALSE]
      ELSE [status |-> IF has_changes THEN 1 ELSE 0,
            diff |-> [computed |-> TRUE, result |-> diff_result],
            written |-> TRUE]

NotRun == [ran |-> FALSE]

\* diff_decks(deck_a, deck_b, output)
DiffDecks ==
  /\ pc = "decks"
  /\ ~diff_out.diff.ran
  /\ diff_out' = [diff_out EXCEPT !.diff =
                    [ran |-> TRUE,
                     call |-> diff_decks(diff_in.a, diff_in.b, diff_in.output)]]
  /\ UNCHANGED <<pc, diff_in>>
  /\ UNCHANGED cmd_vars
  /\ UNCHANGED scan_vars
  /\ UNCHANGED csv_vars
  /\ UNCHANGED deck_vars
  /\ UNCHANGED io_vars

\* generate_report, up to compute_diff: it returns 1 before the diff when an
\* index file is missing or does not load
ReportDiff ==
  /\ pc = "decks"
  /\ ~diff_out.report.ran
  /\ LET a == _load_index(diff_in.a)
         b == _load_index(diff_in.b)
     IN  diff_out' = [diff_out EXCEPT !.report =
                       IF a.raised \/ b.raised
                       THEN [ran |-> TRUE, computed |-> FALSE]
                       ELSE [ran |-> TRUE, computed |-> TRUE,
                             result |-> compute_diff(a.index, b.index)]]
  /\ UNCHANGED <<pc, diff_in>>
  /\ UNCHANGED cmd_vars
  /\ UNCHANGED scan_vars
  /\ UNCHANGED csv_vars
  /\ UNCHANGED deck_vars
  /\ UNCHANGED io_vars

NextDiff == DiffDecks \/ ReportDiff

\* ----------------------------------------------------------- index I/O
\* the file json_str makes: the whole document
WholeFile(idx) == [exists |-> TRUE, complete |-> TRUE, doc |-> to_dict(idx)]

\* a file that holds less than a whole document
PartFile == [exists |-> TRUE, complete |-> FALSE]

\* the workbooks and tables the caller adds
IoWorkbooks == {<<"a">>, <<"b">>}

IoContents == {"one row", "two rows"}

IoWorkbookMeta(w) ==
  [workbook_id |-> w,
   source_path |-> DeckPath(<<>>, w \o Xlsx),
   hash |-> HashKey(w)]

IoTableMeta(w, content) ==
  [table_id |-> <<"t">>,
   workbook_id |-> w,
   csv_sha256 |-> Sha256(content),
   row_count |-> IF content = "one row" THEN 1 ELSE 2]

\* index.add_workbook(meta), by the caller that builds an index
AddWorkbook ==
  /\ pc \in {"ready", "done", "raised", "read"}
  /\ now < IoOps
  /\ \E w \in IoWorkbooks :
       index' = add_workbook(index, IoWorkbookMeta(w))
  /\ now' = now + 1
  /\ pc' = "ready"
  /\ UNCHANGED <<deck, shadow, index_file>>
  /\ UNCHANGED io_vars
  /\ UNCHANGED scan_vars
  /\ UNCHANGED csv_vars
  /\ UNCHANGED diff_vars
  /\ UNCHANGED cmd_vars

\* index.add_table(meta), by the caller that builds an index
AddTable ==
  /\ pc \in {"ready", "done", "raised", "read"}
  /\ now < IoOps
  /\ \E w \in IoWorkbooks, content \in IoContents :
       index' = add_table(index, IoTableMeta(w, content))
  /\ now' = now + 1
  /\ pc' = "ready"
  /\ UNCHANGED <<deck, shadow, index_file>>
  /\ UNCHANGED io_vars
  /\ UNCHANGED scan_vars
  /\ UNCHANGED csv_vars
  /\ UNCHANGED diff_vars
  /\ UNCHANGED cmd_vars

\* TablesIndexIO.write, to mkstemp: an empty temporary file in the
\* directory of the destination
Mkstemp ==
  /\ pc \in {"ready", "done", "raised", "read"}
  /\ tmp_file' = PartFile
  /\ pc' = "open"
  /\ UNCHANGED loaded
  /\ UNCHANGED deck_vars
  /\ UNCHANGED scan_vars
  /\ UNCHANGED csv_vars
  /\ UNCHANGED diff_vars
  /\ UNCHANGED cmd_vars

\* f.write(json_str) and the close of the temporary file
WriteTmp ==
  /\ pc = "open"
  /\ tmp_file' = WholeFile(index)
  /\ pc' = "written"
  /\ UNCHANGED loaded
  /\ UNCHANGED deck_vars
  /\ UNCHANGED scan_vars
  /\ UNCHANGED csv_vars
  /\ UNCHANGED diff_vars
  /\ UNCHANGED cmd_vars

\* a replace that does not wait for the temporary file to be whole
ReplaceBeforeWritten ==
  /\ pc \in {"open", "written"}
  /\ index_file' = tmp_file
  /\ tmp_file' = NoIndexFile
  /\ pc' = "done"
  /\ UNCHANGED <<deck, shadow, index, now, loaded>>
  /\ UNCHANGED scan_vars
  /\ UNCHANGED csv_vars
  /\ UNCHANGED diff_vars
  /\ UNCHANGED cmd_vars

\* os.replace(tmp_path, path): the destination becomes the temporary file
Replace ==
  /\ pc = "written"
  /\ index_file' = tmp_file
  /\ tmp_file' = NoIndexFile
  /\ pc' = "done"
  /\ UNCHANGED <<deck, shadow, index, now, loaded>>
  /\ UNCHANGED scan_vars
  /\ UNCHANGED csv_vars
  /\ UNCHANGED diff_vars
  /\ UNCHANGED cmd_vars

\* f.write or os.replace raises: the handler unlinks the temporary file and
\* raises again
WriteFails ==
  /\ pc \in {"open", "written"}
  /\ tmp_file' = NoIndexFile
  /\ pc' = "raised"
  /\ UNCHANGED loaded
  /\ UNCHANGED deck_vars
  /\ UNCHANGED scan_vars
  /\ UNCHANGED csv_vars
  /\ UNCHANGED diff_vars
  /\ UNCHANGED cmd_vars

\* the process dies during the write: no handler runs, the files stay
Crash ==
  /\ pc \in {"open", "written"}
  /\ pc' = "crashed"
  /\ UNCHANGED io_vars
  /\ UNCHANGED deck_vars
  /\ UNCHANGED scan_vars
  /\ UNCHANGED csv_vars
  /\ UNCHANGED diff_vars
  /\ UNCHANGED cmd_vars

\* TablesIndexIO.read(path), after a write that returned or, by a later
\* process, after a crash
ReadIndex ==
  /\ pc \in {"done", "crashed"}
  /\ loaded' = IF index_file.exists /\ index_file.complete
               THEN [found |-> TRUE, index |-> from_dict(index_file.doc)]
               ELSE [found |-> FALSE]
  /\ pc' = IF pc = "done" THEN "read" ELSE "recovered"
  /\ UNCHANGED tmp_file
  /\ UNCHANGED deck_vars
  /\ UNCHANGED scan_vars
  /\ UNCHANGED csv_vars
  /\ UNCHANGED diff_vars
  /\ UNCHANGED cmd_vars

NextIO ==
  \/ AddWorkbook
  \/ AddTable
  \/ Mkstemp
  \/ WriteTmp
  \/ Replace
  \/ WriteFails
  \/ Crash
  \/ ReadIndex

\* -------------------------------------------------------- diff_commits
\* worktrees: registered, the worktrees git has in its list; dirs, the
\* worktree directories that exist under the temporary directory; tmpdir,
\* whether the temporary directory exists; added, the worktrees whose
\* "git worktree add" succeeded; extracted, the worktrees extract_deck
\* returned for; status, what diff_commits returned. "base" and "head" are
\* the worktrees of the command, "mine" is a worktree of the user.
TempWorktrees == {"base", "head"}

NoWorktrees ==
  [registered |-> {}, dirs |-> {}, tmpdir |-> FALSE, added |-> {},
   extracted |-> {}, status |-> "none"]

\* git diff --name-only: it fails, or no Excel file changed and the empty
\* report is written, or some did
GitDiff ==
  /\ pc = "git_diff"
  /\ \E outcome \in {"fails", "no_excel", "excel"} :
       \/ /\ outcome = "fails"
          /\ worktrees' = [worktrees EXCEPT !.status = "1"]
          /\ pc' = "returned"
       \/ /\ outcome = "no_excel"
          /\ worktrees' = [worktrees EXCEPT !.status = "0"]
          /\ pc' = "returned"
       \/ /\ outcome = "excel"
          /\ worktrees' = [worktrees EXCEPT !.tmpdir = TRUE]
          /\ pc' = "add_base"
  /\ UNCHANGED validation
  /\ UNCHANGED scan_vars
  /\ UNCHANGED csv_vars
  /\ UNCHANGED deck_vars
  /\ UNCHANGED io_vars
  /\ UNCHANGED diff_vars

\* run_git("worktree", "add", "--detach", "--force", dir, ref): the worktree
\* is registered and checked out, or git fails and may leave the directory
\* or the registration behind
WorktreeAdd(wt, next_pc) ==
  /\ \/ /\ worktrees' = [worktrees EXCEPT !.registered = @ \cup {wt},
                                          !.dirs = @ \cup {wt},
                                          !.added = @ \cup {wt}]
        /\ pc' = next_pc
     \/ /\ \E left_registered, left_dir \in BOOLEAN :
             worktrees' =
               [worktrees EXCEPT
                  !.registered = IF left_registered THEN @ \cup {wt} ELSE @,
                  !.dirs = IF left_dir THEN @ \cup {wt} ELSE @]
        /\ pc' = "except"
  /\ UNCHANGED validation
  /\ UNCHANGED scan_vars
  /\ UNCHANGED csv_vars
  /\ UNCHANGED deck_vars
  /\ UNCHANGED io_vars
  /\ UNCHANGED diff_vars

AddBase == pc = "add_base" /\ WorktreeAdd("base", "add_head")

AddHead == pc = "add_head" /\ WorktreeAdd("head", "extract_base")

\* extract_deck on a worktree: it returns, raises an Exception, or the
\* command is interrupted (an exception the except clause does not catch)
ExtractWorktree(wt, next_pc) ==
  /\ \E outcome \in {"returns", "raises", "interrupted"} :
       /\ pc' = CASE outcome = "returns" -> next_pc
                  [] outcome = "raises" -> "except"
                  [] outcome = "interrupted" -> "finally"
       /\ worktrees' = CASE outcome = "returns" ->
                               [worktrees EXCEPT !.extracted = @ \cup {wt}]
                         [] outcome = "raises" -> worktrees
                         [] outcome = "interrupted" ->
                               [worktrees EXCEPT !.status = "raised"]
  /\ UNCHANGED validation
  /\ UNCHANGED scan_vars
  /\ UNCHANGED csv_vars
  /\ UNCHANGED deck_vars
  /\ UNCHANGED io_vars
  /\ UNCHANGED diff_vars

ExtractBase == pc = "extract_base" /\ ExtractWorktree("base", "extract_head")

ExtractHead == pc = "extract_head" /\ ExtractWorktree("head", "report")

\* return generate_report(...): its status, or it raises
GenerateReport ==
  /\ pc = "report"
  /\ \E outcome \in {"0", "1", "raises"} :
       IF outcome = "raises"
       THEN pc' = "except" /\ UNCHANGED worktrees
       ELSE /\ pc' = "finally"
            /\ worktrees' = [worktrees EXCEPT !.status = outcome]
  /\ UNCHANGED validation
  /\ UNCHANGED scan_vars
  /\ UNCHANGED csv_vars
  /\ UNCHANGED deck_vars
  /\ UNCHANGED io_vars
  /\ UNCHANGED diff_vars

\* except Exception: return 1
Except ==
  /\ pc = "except"
  /\ worktrees' = [worktrees EXCEPT !.status = "1"]
  /\ pc' = "finally"
  /\ UNCHANGED validation
  /\ UNCHANGED scan_vars
  /\ UNCHANGED csv_vars
  /\ UNCHANGED deck_vars
  /\ UNCHANGED io_vars
  /\ UNCHANGED diff_vars

\* git worktree remove --force on base_dir and head_dir when they exist: a
\* registered worktree loses its registration and its directory, on
\* anything else git fails and the failure is ignored
RemoveExisting(w) ==
  [w EXCEPT !.registered = @ \ (TempWorktrees \cap w.dirs),
            !.dirs = @ \ (TempWorktrees \cap w.registered)]

\* git worktree prune: the registrations whose directory is gone are dropped
Prune(w) == [w EXCEPT !.registered = @ \cap w.dirs]

\* the mutant of the finally clause that does not prune
FinallyWithoutPrune(w) == RemoveExisting(w)

\* the finally clause
Finally(w) == Prune(RemoveExisting(w))

\* the finally clause, then the exit of the TemporaryDirectory block, which
\* deletes the temporary directory with all it holds
Cleanup ==
  /\ pc = "finally"
  /\ worktrees' = [Finally(worktrees) EXCEPT !.dirs = @ \ TempWorktrees,
                                             !.tmpdir = FALSE]
  /\ pc' = "returned"
  /\ UNCHANGED validation
  /\ UNCHANGED scan_vars
  /\ UNCHANGED csv_vars
  /\ UNCHANGED deck_vars
  /\ UNCHANGED io_vars
  /\ UNCHANGED diff_vars

NextCommits ==
  \/ GitDiff
  \/ AddBase
  \/ AddHead
  \/ ExtractBase
  \/ ExtractHead
  \/ GenerateReport
  \/ Except
  \/ Cleanup

\* the repository before the command: the user has no worktree of their
\* own, or one, or the registration of one whose directory is gone
InitCommits ==
  /\ \E registered \in SUBSET {"mine"}, dirs \in SUBSET {"mine"} :
       /\ dirs \subseteq registered
       /\ worktrees = [NoWorktrees EXCEPT !.registered = registered,
                                          !.dirs = dirs]
  /\ validation = <<>>
  /\ pc = "git_diff"
  /\ ScanIdle
  /\ CsvIdle
  /\ DeckIdle
  /\ IoIdle
  /\ DiffIdle

SpecCommits == InitCommits /\ [][NextCommits]_vars

\* ------------------------------------------------ the sheets of the specs
SheetTitle == <<"S", "1">>
TagT == StrV(<<"~", "T">>)
Blank == StrV(<<" ">>)
HdrH == StrV(<<"h">>)

\* header spans: a tag row and a header row; a header cell is None, blank,
\* a header or itself a tag
InitHdr ==
  /\ \E tag_cells \in [1..HdrCols -> {NoneV, TagT}],
        header_cells \in [1..HdrCols -> {NoneV, Blank, HdrH, TagT}] :
       workbook = <<[title |-> SheetTitle, rows |-> <<tag_cells, header_cells>>]>>
  /\ schema = NoSchema
  /\ pc = "start"
  /\ tables = <<>>
  /\ frames = <<>>
  /\ CsvIdle
  /\ DeckIdle
  /\ IoIdle
  /\ DiffIdle
  /\ CmdIdle

SpecHdr == InitHdr /\ [][NextScan]_vars

\* tags: a grid of TagRows by TagCols cells, each None, a tag or a uc_sets
\* tag written with a leading space, in mixed case and with a name
TagRows == 2
TagCols == 2
TagUc == StrV(<<" ", "~", "U", "C", "_", "S", "e", "t", "s", ":", "x">>)

InitTags ==
  /\ \E cells \in [1..TagRows -> [1..TagCols -> {NoneV, TagT, TagUc}]] :
       workbook = <<[title |-> SheetTitle, rows |-> cells]>>
  /\ schema = NoSchema
  /\ pc = "start"
  /\ tables = <<>>
  /\ frames = <<>>
  /\ CsvIdle
  /\ DeckIdle
  /\ IoIdle
  /\ DiffIdle
  /\ CmdIdle

SpecTags == InitTags /\ [][NextScan]_vars

\* data rows: a tag row, a header row and DataRows rows below; a data cell is
\* None or a value, and in the first column also a whitespace string
ValV == StrV(<<"x">>)

\* the tag columns and the empty header columns of the sheets: one table over
\* every column, two tables side by side, a tag above the last column, and a
\* table that ends before the last column
RowLayouts ==
  {[tags |-> {1}, gaps |-> {}],
   [tags |-> {1, RowCols}, gaps |-> {}],
   [tags |-> {RowCols}, gaps |-> {}],
   [tags |-> {1}, gaps |-> {RowCols}]}

InitRows ==
  /\ \E layout \in RowLayouts,
        data \in [1..DataRows ->
                   {cells \in [1..RowCols -> {NoneV, Blank, ValV}] :
                      \A c \in 2..RowCols : cells[c] # Blank}] :
       workbook =
         <<[title |-> SheetTitle,
            rows |-> <<[c \in 1..RowCols |->
                         IF c \in layout.tags THEN TagT ELSE NoneV],
                       [c \in 1..RowCols |->
                         IF c \in layout.gaps THEN NoneV ELSE HdrH]>>
                     \o data]>>
  /\ schema = NoSchema
  /\ pc = "start"
  /\ tables = <<>>
  /\ frames = <<>>
  /\ CsvIdle
  /\ DeckIdle
  /\ IoIdle
  /\ DiffIdle
  /\ CmdIdle

SpecRows == InitRows /\ [][NextScan]_vars

\* duplicate headers: one tag, a header row of names that differ in case or
\* already end in a column suffix, and one data row; without a schema and with
\* a schema that knows the tag type and its field "a"
HdrA == StrV(<<"A">>)
Hdra == StrV(<<"a">>)
HdrACol1 == StrV(<<"A", "_", "c", "o", "l", "1">>)

SchemaA ==
  (<<"t">> :> [fields |-> <<<<"a">>>>,
              alias |-> (<<"x">> :> <<"a">>),
              query |-> {<<"a">>}])

InitDup ==
  /\ \E tag_col \in 1..DupCols,
        header_cells \in [1..DupCols -> {NoneV, HdrA, Hdra, HdrACol1}] :
       workbook =
         <<[title |-> SheetTitle,
            rows |-> <<[c \in 1..DupCols |-> IF c = tag_col THEN TagT ELSE NoneV],
                       header_cells,
                       [c \in 1..DupCols |-> StrV(IntStr(c))]>>]>>
  /\ schema \in {NoSchema, SchemaA}
  /\ pc = "start"
  /\ tables = <<>>
  /\ frames = <<>>
  /\ CsvIdle
  /\ DeckIdle
  /\ IoIdle
  /\ DiffIdle
  /\ CmdIdle

SpecDup == InitDup /\ [][NextScan]_vars

\* numbers: a table of two columns and NumRows data rows whose cells are
\* None, the int 7 or a string
NumRows == 2

InitNum ==
  /\ \E data \in [1..NumRows -> [1..2 -> {NoneV, IntV(7), ValV}]] :
       workbook = <<[title |-> SheetTitle,
                     rows |-> <<<<TagT, NoneV>>, <<HdrH, HdrA>>>> \o data]>>
  /\ schema = NoSchema
  /\ pc = "start"
  /\ tables = <<>>
  /\ frames = <<>>
  /\ CsvIdle
  /\ DeckIdle
  /\ IoIdle
  /\ DiffIdle
  /\ CmdIdle

SpecNum == InitNum /\ [][NextScan]_vars

\* relocation: a sheet that holds one tagged table (tag, header, one data
\* row); the table starts at A1 and is moved about the sheet between runs
PlaceTable(title, tag, row, col) ==
  [title |-> title,
   rows |-> [r \in 1..(MoveRows + 2) |->
               [c \in 1..MoveCols |->
                  IF c # col THEN NoneV
                  ELSE IF r = row THEN tag
                  ELSE IF r = row + 1 THEN HdrH
                  ELSE IF r = row + 2 THEN ValV
                  ELSE NoneV]]]

MoveTags ==
  {StrV(<<"~", "T">>),
   StrV(<<"~", "T", ":", " ", "A", " ", "b">>),
   StrV(<<"~", "t", ":", "z">>)}

MoveTitles == {<<"S", "1">>, <<"s", " ", "2">>}

\* the cell that holds the tag of the sheet's table
TagCellOf(sheet) ==
  CHOOSE rc \in (1..max_row(sheet)) \X (1..max_column(sheet)) :
    cell(sheet, rc[1], rc[2]) \in MoveTags

\* between two runs the table is moved to another cell of the same sheet; the
\* workbook, the sheet's title and the tag's text stay as they are
MoveTable ==
  /\ pc = "extracted"
  /\ LET sheet == workbook[1]
         at == TagCellOf(sheet)
     IN  \E row \in 1..MoveRows, col \in 1..MoveCols :
           /\ <<row, col>> # at
           /\ workbook' = <<PlaceTable(sheet.title, cell(sheet, at[1], at[2]),
                                       row, col)>>
  /\ pc' = "start"
  /\ UNCHANGED <<schema, tables, frames>>
  /\ UNCHANGED csv_vars
  /\ UNCHANGED deck_vars
  /\ UNCHANGED io_vars
  /\ UNCHANGED diff_vars
  /\ UNCHANGED cmd_vars

NextMove == ScanWorkbook \/ ExtractTables \/ MoveTable

InitMove ==
  /\ \E title \in MoveTitles, tag \in MoveTags :
       workbook = <<PlaceTable(title, tag, 1, 1)>>
  /\ schema = NoSchema
  /\ pc = "start"
  /\ tables = <<>>
  /\ frames = <<>>
  /\ CsvIdle
  /\ DeckIdle
  /\ IoIdle
  /\ DiffIdle
  /\ CmdIdle

SpecMove == InitMove /\ [][NextMove]_vars

\* identifiers: a sheet that holds one tagged table at A1; either the sheet's
\* name or the tag's logical name is any string of up to NameLen characters
\* out of an upper-case letter, a lower-case letter, a space and a hyphen
NameChars == {"A", "b", " ", "-"}

RECURSIVE NamesUpTo(_)
NamesUpTo(n) ==
  IF n = 0 THEN {<<>>}
  ELSE LET shorter == NamesUpTo(n - 1)
       IN  shorter \cup {Append(s, ch) : s \in {t \in shorter : Len(t) = n - 1},
                                          ch \in NameChars}

IdTagTypes == {<<"~", "T">>, <<"~", "F", "-", "t">>}

InitIds ==
  /\ \E name \in NamesUpTo(NameLen), tag \in IdTagTypes :
       \/ workbook = <<PlaceTable(SheetTitle, StrV(tag \o <<":">> \o name), 1, 1)>>
       \/ /\ name # <<>>
          /\ workbook = <<PlaceTable(name, StrV(tag), 1, 1)>>
  /\ schema = NoSchema
  /\ pc = "start"
  /\ tables = <<>>
  /\ frames = <<>>
  /\ CsvIdle
  /\ DeckIdle
  /\ IoIdle
  /\ DiffIdle
  /\ CmdIdle

SpecIds == InitIds /\ [][NextScan]_vars

\* decks: workbook files in the places extract_deck looks in and one it does
\* not look at; a file holds one table, two tables, a table whose extraction
\* raises (C5), or bytes that are no workbook
DeckTable(tag, value) == <<StrV(tag), HdrH, StrV(value)>>

\* a sheet of tables side by side, a blank column between them: each table
\* is a tag, a header below it and a value below that
DeckSheet(table_columns) ==
  [title |-> SheetTitle,
   rows |-> [r \in 1..3 |->
               [c \in 1..(2 * Len(table_columns) - 1) |->
                  IF c % 2 = 1 THEN table_columns[(c + 1) \div 2][r] ELSE NoneV]]]

ContentX == [corrupt |-> FALSE,
             sheets |-> <<DeckSheet(<<DeckTable(<<"~", "T">>, <<"x">>)>>)>>]
ContentY == [corrupt |-> FALSE,
             sheets |-> <<DeckSheet(<<DeckTable(<<"~", "T">>, <<"y">>)>>)>>]
ContentTwo ==
  [corrupt |-> FALSE,
   sheets |-> <<DeckSheet(<<DeckTable(<<"~", "T", ":", "a">>, <<"x">>),
                            DeckTable(<<"~", "T", ":", "b">>, <<"y">>)>>)>>]
ContentDup ==
  [corrupt |-> FALSE,
   sheets |-> <<[title |-> SheetTitle,
                 rows |-> <<<<TagT, NoneV, NoneV, NoneV,
                              StrV(<<"~", "T", ":", "b">>)>>,
                            <<HdrACol1, HdrA, HdrA, NoneV, HdrH>>,
                            <<ValV, ValV, ValV, NoneV, ValV>>>>]>>]
ContentSame ==
  [corrupt |-> FALSE,
   sheets |-> <<DeckSheet(<<DeckTable(<<"~", "T">>, <<"x">>),
                            DeckTable(<<"~", "T">>, <<"y">>)>>)>>]
ContentCorrupt == [corrupt |-> TRUE, sheets |-> <<>>]
ContentSlash ==
  [corrupt |-> FALSE,
   sheets |-> <<DeckSheet(<<DeckTable(<<"~", "T", "/", "a">>, <<"x">>),
                            DeckTable(<<"~", "T">>, <<"y">>)>>)>>]

FileA == <<"A">>
Scen_A == Scen_ \o <<"A">>

\* the files a deck may hold and what each may hold
DeckChoices ==
  (DeckPath(<<>>, FileA \o Xlsx) :> {ContentX, ContentTwo, ContentSame,
                                     ContentCorrupt}
   @@ DeckPath(<<>>, FileA \o Xls) :> {ContentY, ContentDup, ContentSlash}
   @@ DeckPath(<<SuppXLS>>, Scen_A \o Xlsx) :> {ContentX}
   @@ DeckPath(<<SuppXLS>>, FileA \o Xlsx) :> {ContentY})

\* the decks over those files
Decks ==
  UNION {{d \in [present -> UNION {DeckChoices[f] : f \in DOMAIN DeckChoices}] :
            \A f \in present : d[f] \in DeckChoices[f]}
         : present \in SUBSET DOMAIN DeckChoices}

\* between two runs a workbook file is saved with other content, added or
\* removed
EditDeck ==
  /\ pc \in {"indexed", "edited", "aborted", "formatted"}
  /\ now < MaxClock
  /\ \E d \in Decks :
       /\ \E f \in DOMAIN DeckChoices :
            /\ (f \in DOMAIN d) # (f \in DOMAIN deck)
               \/ (f \in DOMAIN d /\ f \in DOMAIN deck /\ d[f] # deck[f])
            /\ \A g \in (DOMAIN DeckChoices) \ {f} :
                 /\ (g \in DOMAIN d) = (g \in DOMAIN deck)
                 /\ g \in DOMAIN d => d[g] = deck[g]
       /\ deck' = d
  /\ now' = now + 1
  /\ pc' = IF pc = "aborted" THEN "aborted" ELSE "edited"
  /\ UNCHANGED <<shadow, index_file, index>>
  /\ UNCHANGED scan_vars
  /\ UNCHANGED csv_vars
  /\ UNCHANGED io_vars
  /\ UNCHANGED diff_vars
  /\ UNCHANGED cmd_vars

\* the body of format_deck's loop for a table of the deck whose CSV file
\* exists: the file is left as it is when it is empty or has no rows, else
\* it is written again from what read_csv returns
FormattedCsv(meta, file, sch) ==
  LET read == read_csv(file)
      from_meta == IF meta.primary_keys # <<>> THEN meta.primary_keys
                   ELSE get_primary_keys(sch, meta.tag_type)
      primary_keys == IF from_meta = <<>> THEN read.columns ELSE from_meta
      missing_cols == {i \in 1..Len(meta.columns) :
                         ~InColumns(read.columns, meta.columns[i])}
      column_order == IF missing_cols # {} THEN read.columns ELSE meta.columns
  IN  IF file.header = <<>> \/ DfEmpty(read)
      THEN [written |-> FALSE, file |-> file]
      ELSE Then(write_deterministic_csv(read, primary_keys, column_order),
                LAMBDA written :
                  [written |-> TRUE,
                   file |-> [header |-> written.header, rows |-> written.rows]])

\* the loop body of format_deck for the k-th table of the index: a missing
\* CSV file is counted as an error, any other file is formatted and the
\* csv_sha256 of the entry set to the hash of the file
FormatEntry(acc, k, sch) ==
  IF acc.tables[k].csv_path \notin DOMAIN acc.shadow
  THEN [acc EXCEPT !.error_count = @ + 1]
  ELSE Then(FormattedCsv(acc.tables[k], acc.shadow[acc.tables[k].csv_path], sch),
            LAMBDA csv :
              [acc EXCEPT !.shadow[acc.tables[k].csv_path] = csv.file,
                          !.tables[k].csv_sha256 =
                             IF csv.written THEN Sha256(csv.file) ELSE @])

RECURSIVE FormatEntries(_, _, _)
FormatEntries(acc, k, sch) ==
  IF k > Len(acc.tables) THEN acc
  ELSE Then(FormatEntry(acc, k, sch),
            LAMBDA x : FormatEntries(x, k + 1, sch))

\* format_deck: the tables of the index read from the file, the CSV files
\* and the number of tables in error when the loop is over
format_deck(file, csv_files, sch) ==
  FormatEntries([tables |-> from_dict(file.doc).tables, shadow |-> csv_files,
                 error_count |-> 0], 1, sch)

\* one run of format_deck on the deck, the index written at the end
FormatDeck ==
  /\ pc \in {"indexed", "edited", "formatted"}
  /\ index_file.exists /\ index_file.complete
  /\ \E run \in {format_deck(index_file, shadow, schema)} :
       /\ shadow' = run.shadow
       /\ index' = [from_dict(index_file.doc) EXCEPT !.tables = run.tables]
       /\ index_file' = [index_file EXCEPT !.doc.tables = run.tables]
  /\ pc' = "formatted"
  /\ UNCHANGED <<deck, now>>
  /\ UNCHANGED scan_vars
  /\ UNCHANGED csv_vars
  /\ UNCHANGED io_vars
  /\ UNCHANGED diff_vars
  /\ UNCHANGED cmd_vars

\* between two runs a CSV file is removed from the shadow directory
DeleteCsv ==
  /\ pc \in {"indexed", "edited", "aborted"}
  /\ now < MaxClock
  /\ \E gone \in DOMAIN shadow :
       shadow' = [q \in (DOMAIN shadow) \ {gone} |-> shadow[q]]
  /\ now' = now + 1
  /\ pc' = IF pc = "aborted" THEN "aborted" ELSE "edited"
  /\ UNCHANGED <<deck, index_file, index>>
  /\ UNCHANGED scan_vars
  /\ UNCHANGED csv_vars
  /\ UNCHANGED io_vars
  /\ UNCHANGED diff_vars
  /\ UNCHANGED cmd_vars

NextDeck == ExtractDeck \/ EditDeck \/ DeleteCsv

InitDeck ==
  /\ deck \in Decks
  /\ shadow = <<>>
  /\ index_file = NoIndexFile
  /\ index = EmptyIndex(0)
  /\ now = 0
  /\ pc = "deck"
  /\ ScanIdle
  /\ CsvIdle
  /\ IoIdle
  /\ DiffIdle
  /\ CmdIdle

SpecDeck == InitDeck /\ [][NextDeck]_vars

\* the runs of extract_deck that end with the index written
ExtractDeckDone == ExtractDeck /\ pc' = "indexed"

\* extract_deck and format_deck run on a deck whose workbooks are edited
\* between the runs and whose shadow directory nobody else touches
NextShadow == ExtractDeckDone \/ FormatDeck \/ EditDeck

SpecShadow == InitDeck /\ [][NextShadow]_vars

\* comparisons: the index files of two decks, each missing, not a JSON
\* document, or the index of some of DiffTables tables of one workbook, each
\* with one of two contents
DiffWorkbook == <<"w">>

DiffTableMeta(i, content) ==
  [table_id |-> <<"t">> \o IntStr(i),
   workbook_id |-> DiffWorkbook,
   csv_sha256 |-> Sha256(content),
   row_count |-> IF content = "one row" THEN 1 ELSE 2]

\* the index built by add_workbook and add_table for the chosen tables
RECURSIVE DiffIndex(_, _)
DiffIndex(contents, n) ==
  IF n = 0
  THEN add_workbook(EmptyIndex(1),
                    [workbook_id |-> DiffWorkbook,
                     source_path |-> DeckPath(<<>>, DiffWorkbook \o Xlsx),
                     hash |-> HashKey(contents)])
  ELSE IF contents[n] = "absent" THEN DiffIndex(contents, n - 1)
  ELSE add_table(DiffIndex(contents, n - 1), DiffTableMeta(n, contents[n]))

DiffIndexFiles ==
  {NoIndexFile, [exists |-> TRUE, complete |-> FALSE]}
  \cup {[exists |-> TRUE, complete |-> TRUE,
          doc |-> to_dict(DiffIndex(contents, DiffTables))] :
         contents \in [1..DiffTables -> {"absent", "one row", "two rows"}]}

InitDiff ==
  /\ \E a \in DiffIndexFiles, b \in DiffIndexFiles,
        output \in {"stdout", "writable", "unwritable"} :
       diff_in = [a |-> a, b |-> b, output |-> output]
  /\ diff_out = [diff |-> NotRun, report |-> NotRun]
  /\ pc = "decks"
  /\ ScanIdle
  /\ CsvIdle
  /\ DeckIdle
  /\ IoIdle
  /\ CmdIdle

SpecDiff == InitDiff /\ [][NextDiff]_vars

\* index files: an index built by up to IoOps calls of add_workbook and
\* add_table over two workbooks that hold a table of one table_id, written
\* and read at any point
InitIO ==
  /\ index = EmptyIndex(0)
  /\ index_file = NoIndexFile
  /\ now = 0
  /\ deck = <<>>
  /\ shadow = <<>>
  /\ pc = "ready"
  /\ IoIdle
  /\ ScanIdle
  /\ CsvIdle
  /\ DiffIdle
  /\ CmdIdle

SpecIO == InitIO /\ [][NextIO]_vars

\* the serializer: a frame of up to MaxDfRows rows over the columns k and v, as
\* extract_table returns it (a value is a stripped string, None, or the NaN of
\* a numeric column), and the primary keys the schema declares: none, columns
\* of the frame, or a field z the frame has no column for
ColK == <<"k">>
ColV == <<"v">>
ColZ == <<"z">>

InitCsv ==
  /\ \E n \in 0..MaxDfRows :
       \E ks \in [1..n -> {NoneV, NaNV, StrV(<<"B">>), StrV(<<"a">>)}],
          vs \in [1..n -> {NoneV, StrV(<<"A">>)}] :
         df = [raised |-> FALSE,
               columns |-> <<ColK, ColV>>,
               rows |-> [r \in 1..n |-> <<ks[r], vs[r]>>]]
  /\ schema_pks \in {<<>>, <<ColK>>, <<ColK, ColV>>, <<ColZ>>, <<ColZ, ColK>>}
  /\ csv_file = NoFile
  /\ table_meta = NoMeta
  /\ warned = FALSE
  /\ pc = "start"
  /\ ScanIdle
  /\ DeckIdle
  /\ IoIdle
  /\ DiffIdle
  /\ CmdIdle

SpecCsv == InitCsv /\ [][NextCsv]_vars

\* the formatter on a deck whose CSV file was not written by extract_deck, as
\* in the fixture of the format tests: a file of up to MaxDfRows rows over
\* the columns k and v, any order of the rows, with its entry in the index
PreparedFiles ==
  UNION {{[header |-> <<ColK, ColV>>,
           rows |-> [r \in 1..n |-> <<ks[r], vs[r]>>],
           exists |-> TRUE] :
            ks \in [1..n -> {<<>>, <<"B">>, <<"n", "a", "n">>}],
            vs \in [1..n -> {<<>>, <<"A">>}]}
         : n \in 0..MaxDfRows}

InitFormat ==
  /\ csv_file \in PreparedFiles
  /\ \E primary_keys \in {<<ColK>>, <<ColK, ColV>>, <<ColZ>>} :
       table_meta = [columns |-> csv_file.header,
                     primary_keys |-> primary_keys,
                     row_count |-> Len(csv_file.rows),
                     csv_sha256 |-> Sha256([header |-> csv_file.header,
                                            rows |-> csv_file.rows])]
  /\ df = EmptyFrame
  /\ schema_pks = <<>>
  /\ warned = FALSE
  /\ pc = "prepared"
  /\ ScanIdle
  /\ DeckIdle
  /\ IoIdle
  /\ DiffIdle
  /\ CmdIdle

NextFormat == FormatTable

SpecFormat == InitFormat /\ [][NextFormat]_vars

\* ------------------------------------------------------------ validate
\* the position of a column among the columns, 0 when it is not one
ColumnIndex(columns, name) ==
  IF \E i \in 1..Len(columns) : columns[i] = name
  THEN CHOOSE i \in 1..Len(columns) : columns[i] = name
  ELSE 0

\* df[pk].isna() | (df[pk] == ""): the column holds an empty field
NullMask(frame, pk) ==
  \E r \in 1..Len(frame.rows) :
     frame.rows[r][ColumnIndex(frame.columns, pk)].s = <<>>

\* df[primary_keys].duplicated(keep=False): two rows with the same fields in
\* the primary key columns
Duplicated(frame, primary_keys) ==
  \E r1, r2 \in 1..Len(frame.rows) :
     /\ r1 # r2
     /\ \A i \in 1..Len(primary_keys) :
          frame.rows[r1][ColumnIndex(frame.columns, primary_keys[i])] =
            frame.rows[r2][ColumnIndex(frame.columns, primary_keys[i])]

\* _validate_table: the kinds of the errors and of the warnings it returns.
\* The schema is read for the warnings only.
_validate_table(tag_type, frame, expected_columns, primary_keys, sch) ==
  LET present == \A i \in 1..Len(primary_keys) :
                    ColumnIndex(frame.columns, primary_keys[i]) # 0
  IN  [errors |->
         {"column_mismatch" : x \in {1} \cap
            (IF frame.columns # expected_columns THEN {1} ELSE {})}
         \cup {"pk_not_found" : x \in {1} \cap (IF ~present THEN {1} ELSE {})}
         \cup {"null_pk" : x \in {1} \cap
                 (IF present /\ \E i \in 1..Len(primary_keys) :
                                   NullMask(frame, primary_keys[i])
                  THEN {1} ELSE {})}
         \cup {"duplicate_pk" : x \in {1} \cap
                 (IF present /\ primary_keys # <<>> /\ Duplicated(frame, primary_keys)
                  THEN {1} ELSE {})},
       warnings |->
         {"unknown_tag" : x \in {1} \cap
            (IF Lower(tag_type) \notin DOMAIN sch THEN {1} ELSE {})}
         \cup {"unknown_column" : x \in {1} \cap
                 (IF /\ Lower(tag_type) \in DOMAIN sch
                     /\ \E i \in 1..Len(frame.columns) :
                          /\ get_canonical_name(sch, tag_type, frame.columns[i])
                               = NoCanonical
                          /\ \A j \in 1..Len(sch[Lower(tag_type)].fields) :
                               sch[Lower(tag_type)].fields[j] # Lower(frame.columns[i])
                  THEN {1} ELSE {})}]

\* validate_deck on a deck whose index holds one table: the body of the loop
\* and the status returned
validate_deck(file, meta, sch) ==
  LET checked ==
        IF ~file.exists
        THEN [errors |-> {"csv_not_found"}, warnings |-> {}]
        ELSE IF file.header = <<>>
        THEN \* pd.errors.EmptyDataError
             IF meta.row_count = 0 /\ Len(meta.columns) = 0
             THEN [errors |-> {}, warnings |-> {}]
             ELSE [errors |-> {"csv_empty"}, warnings |-> {}]
        ELSE _validate_table(meta.tag_type, read_csv(file), meta.columns,
                             meta.primary_keys, sch)
  IN  [ran |-> TRUE, errors |-> checked.errors, warnings |-> checked.warnings,
       status |-> IF checked.errors # {} THEN 1 ELSE 0]

ValidateDeck ==
  /\ pc = "prepared"
  /\ validation' = validate_deck(csv_file, table_meta, schema)
  /\ pc' = "validated"
  /\ UNCHANGED worktrees
  /\ UNCHANGED <<workbook, schema, tables, frames>>
  /\ UNCHANGED csv_vars
  /\ UNCHANGED deck_vars
  /\ UNCHANGED io_vars
  /\ UNCHANGED diff_vars

\* the CSV files of the decks validated: up to ValRows rows over two columns,
\* or a file of no bytes, or no file
ValRows == 2
ColA == <<"a">>
ValidatedFiles ==
  {NoFile, [header |-> <<>>, rows |-> <<>>, exists |-> TRUE]}
  \cup UNION {{[header |-> header,
                rows |-> [r \in 1..n |-> <<ks[r], vs[r]>>],
                exists |-> TRUE] :
                 ks \in [1..n -> {<<>>, <<"B">>}],
                 vs \in [1..n -> {<<>>, <<"A">>}],
                 header \in {<<ColK, ColV>>, <<ColA, ColV>>, <<ColV, ColK>>}}
              : n \in 0..ValRows}

\* a deck prepared as in the fixtures of the validate tests: a CSV file and
\* an index entry written by hand, which need not agree
InitValidate ==
  /\ csv_file \in ValidatedFiles
  /\ \E primary_keys \in {<<>>, <<ColK>>, <<ColK, ColV>>, <<ColA>>},
        columns \in {<<>>, <<ColK, ColV>>, <<ColA, ColV>>},
        tag_type \in {<<"t">>, <<"u">>} :
       table_meta = [tag_type |-> tag_type,
                     columns |-> columns,
                     primary_keys |-> primary_keys,
                     row_count |-> Len(csv_file.rows),
                     csv_sha256 |-> Sha256([header |-> csv_file.header,
                                            rows |-> csv_file.rows])]
  /\ schema = SchemaA
  /\ validation = [ran |-> FALSE]
  /\ worktrees = <<>>
  /\ df = EmptyFrame
  /\ schema_pks = <<>>
  /\ warned = FALSE
  /\ pc = "prepared"
  /\ workbook = <<>>
  /\ tables = <<>>
  /\ frames = <<>>
  /\ DeckIdle
  /\ IoIdle
  /\ DiffIdle

NextValidate == ValidateDeck

SpecValidate == InitValidate /\ [][NextValidate]_vars

\* ------------------------------------------------------------- claims
\* the columns of a row that hold a tag: a value whose text starts with "~"
TagColumns(sheet, row) ==
  {c \in 1..max_column(sheet) :
     /\ cell(sheet, row, c) # NoneV
     /\ StartsWith(Strip(PyStr(cell(sheet, row, c))), <<"~">>)}

\* the columns of the reported header span of a table
SpanColumns(T) == IF T.headers = <<>> THEN {} ELSE T.first_col..T.last_col

\* c lies strictly on the side of column u where the tag column is
OnTagSide(c, u, tag_col) == IF u < tag_col THEN c > u ELSE c < u

\* C1: for every scanned tag T and every other tag U of T's row, every column
\* of the header span reported for T lies strictly on T's side of U's column;
\* when no column of the detected run does, T is reported as an empty table.
C1_SpanStopsAtNeighbourTags ==
  pc # "start" =>
    \A i \in 1..Len(tables) :
      LET T == tables[i]
          sheet == SheetNamed(workbook, T.sheet_name)
          others == TagColumns(sheet, T.tag_row) \ {T.tag_col}
          allowed == {c \in T.bounds.start_col..T.bounds.end_col :
                        \A u \in others : OnTagSide(c, u, T.tag_col)}
      IN  /\ \A u \in others : \A c \in SpanColumns(T) : OnTagSide(c, u, T.tag_col)
          /\ Len(T.headers) = Cardinality(SpanColumns(T))
          /\ (T.bounds.found /\ allowed = {}) =>
                (T.headers = <<>> /\ T.row_count = 0)

\* a tag whose detected run of headers reaches over a neighbouring tag's
\* column and that still keeps a clipped, non-empty span
C1_Witness ==
  /\ pc # "start"
  /\ \E i \in 1..Len(tables) :
       LET T == tables[i]
           sheet == SheetNamed(workbook, T.sheet_name)
       IN  /\ T.headers # <<>>
           /\ \E u \in TagColumns(sheet, T.tag_row) \ {T.tag_col} :
                u \in T.bounds.start_col..T.bounds.end_col

C3_BoundsAreMaximalRun ==
  pc # "start" =>
    \A i \in 1..Len(tables) :
      LET T == tables[i]
          sheet == SheetNamed(workbook, T.sheet_name)
          header_row == T.tag_row + 1
          b == T.bounds
      IN  b.found =>
            /\ b.start_col <= T.anchor /\ T.anchor <= b.end_col
            /\ \A c \in b.start_col..b.end_col : ~HeaderEmpty(sheet, header_row, c)
            /\ b.start_col = 1 \/ HeaderEmpty(sheet, header_row, b.start_col - 1)
            /\ b.end_col = max_column(sheet)
               \/ HeaderEmpty(sheet, header_row, b.end_col + 1)

\* a run that was expanded on both sides of the anchor, from column 1
C3_Witness ==
  /\ pc # "start"
  /\ \E i \in 1..Len(tables) :
       LET b == tables[i].bounds
       IN  /\ b.found
           /\ b.start_col = 1
           /\ b.start_col < tables[i].anchor
           /\ tables[i].anchor < b.end_col

\* the cells of one sheet row within the columns first_col .. last_col
RowCells(sheet, row, first_col, last_col) ==
  [i \in 1..(last_col - first_col + 1) |-> cell(sheet, row, first_col + i - 1)]

\* a row is empty in a span when every cell of the span holds no value
RowEmpty(sheet, row, first_col, last_col) ==
  \A c \in first_col..last_col : cell(sheet, row, c) = NoneV

\* data_rows are the rows from two below the tag row up to, and without, the
\* first row that is empty in the span
DataRowsAreRunAboveFirstEmptyRow(sheet, tag_row, R) ==
  LET n == Len(R.data_rows)
      first == tag_row + 2
  IN  R.headers # <<>> =>
        /\ \A k \in 1..n :
             /\ ~RowEmpty(sheet, first + k - 1, R.first_col, R.last_col)
             /\ R.data_rows[k] = RowCells(sheet, first + k - 1, R.first_col, R.last_col)
        /\ RowEmpty(sheet, first + n, R.first_col, R.last_col)

\* C4: the data rows of a table, as the scanner counts them and as
\* read_table_range reads them, are the consecutive rows from two rows below
\* the tag row up to, and excluding, the first row whose cells in the header
\* span are all empty; that row and every row below it are excluded.
C4_DataRowsEndAtFirstEmptyRow ==
  /\ pc # "start" =>
       \A i \in 1..Len(tables) :
         /\ DataRowsAreRunAboveFirstEmptyRow(
              SheetNamed(workbook, tables[i].sheet_name), tables[i].tag_row,
              tables[i])
         /\ tables[i].row_count = Len(tables[i].data_rows)
  /\ pc = "extracted" =>
       \A i \in 1..Len(frames) :
         DataRowsAreRunAboveFirstEmptyRow(
           SheetNamed(workbook, tables[i].sheet_name), tables[i].tag_row,
           frames[i].read)

\* a two-column table with a partly empty data row, ended by an empty row
\* that has a row with values below it
C4_Witness ==
  /\ pc = "extracted"
  /\ \E i \in 1..Len(frames) :
       LET R == frames[i].read
           sheet == SheetNamed(workbook, tables[i].sheet_name)
           below == tables[i].tag_row + 2 + Len(R.data_rows) + 1
       IN  /\ Len(R.headers) = 2
           /\ Len(R.data_rows) >= 1
           /\ \E c \in 1..2 : R.data_rows[1][c] = NoneV
           /\ below <= max_row(sheet)
           /\ ~RowEmpty(sheet, below, R.first_col, R.last_col)

\* C5: the column names of every extracted table are pairwise distinct after
\* the renaming of duplicate headers and the schema's alias resolution.
C5_ColumnNamesDistinct ==
  pc = "extracted" =>
    \A i \in 1..Len(frames) :
      \A j, k \in 1..Len(frames[i].df.columns) :
        j # k => frames[i].df.columns[j] # frames[i].df.columns[k]

\* the header text of the columns first_col .. last_col, as the sheet holds it
RawHeaders(sheet, header_row, first_col, last_col) ==
  [j \in 1..(last_col - first_col + 1) |->
     Strip(PyStr(cell(sheet, header_row, first_col + j - 1)))]

\* C6: in what read_table_range returns, a header name that occurs more than
\* once in the span is renamed, at every occurrence, to the name followed by
\* "_col" and the zero-based offset of the column; any other header is
\* unchanged; the number of columns and the cells of the data rows are those
\* of the sheet.
C6_DuplicatesRenamedByOffset ==
  pc = "extracted" =>
    \A i \in 1..Len(frames) :
      LET R == frames[i].read
          sheet == SheetNamed(workbook, tables[i].sheet_name)
          b == tables[i].bounds
          raw == RawHeaders(sheet, tables[i].tag_row + 1, b.start_col, b.end_col)
      IN  b.found =>
            /\ Len(R.headers) = b.end_col - b.start_col + 1
            /\ \A j \in 1..Len(raw) :
                 IF \E k \in 1..Len(raw) : k # j /\ raw[k] = raw[j]
                 THEN R.headers[j]
                      = raw[j] \o <<"_", "c", "o", "l", Chr(48 + j - 1)>>
                 ELSE R.headers[j] = raw[j]
            /\ \A r \in 1..Len(R.data_rows) :
                 /\ Len(R.data_rows[r]) = Len(raw)
                 /\ \A j \in 1..Len(raw) :
                      R.data_rows[r][j]
                      = cell(sheet, tables[i].tag_row + 1 + r, b.start_col + j - 1)

\* a span with a repeated name, a name that is not repeated, and a data row
C6_Witness ==
  /\ pc = "extracted"
  /\ \E i \in 1..Len(frames) :
       LET R == frames[i].read
           sheet == SheetNamed(workbook, tables[i].sheet_name)
           raw == RawHeaders(sheet, tables[i].tag_row + 1, R.first_col, R.last_col)
       IN  /\ Len(R.headers) = 3
           /\ Len(R.data_rows) = 1
           /\ \E j, k \in 1..3 : j # k /\ raw[j] = raw[k]
           /\ \E j \in 1..3 : R.headers[j] = raw[j]

\* the order of the fields of one key column of a CSV: an empty field is a
\* null and comes after every other field, the others compare by codepoint
FieldLess(f, g) ==
  IF f = <<>> THEN FALSE
  ELSE IF g = <<>> THEN TRUE
  ELSE StrLess(f, g)

\* the key tuple of row_a comes strictly before that of row_b
RECURSIVE TupleLess(_, _, _)
TupleLess(row_a, row_b, cols) ==
  IF cols = <<>> THEN FALSE
  ELSE IF FieldLess(row_a[Head(cols)], row_b[Head(cols)]) THEN TRUE
  ELSE IF FieldLess(row_b[Head(cols)], row_a[Head(cols)]) THEN FALSE
  ELSE TupleLess(row_a, row_b, Tail(cols))

\* the positions in the file's header of the names of keys that are columns
KeyColumns(file, keys) ==
  LET present == SelectSeq(keys, LAMBDA pk : InColumns(file.header, pk))
  IN  [i \in 1..Len(present) |-> ColIndex(file.header, present[i])]

\* no row of the file comes before the row above it
NonDecreasing(file, cols) ==
  \A r \in 1..(Len(file.rows) - 1) :
    ~TupleLess(file.rows[r + 1], file.rows[r], cols)

\* C7: in every CSV the serializer writes, during extract and during format,
\* the primary-key tuples of the rows are non-decreasing in case-sensitive
\* codepoint order, a null (empty) key component coming after every non-null
\* one.
C7_RowsSortedNullsLast ==
  pc \in {"written", "formatted"} =>
    NonDecreasing(csv_file, KeyColumns(csv_file, table_meta.primary_keys))

\* a declared primary key has no column in the frame
SomeKeyAbsent == \E i \in 1..Len(schema_pks) : ~InColumns(df.columns, schema_pks[i])

AllColumns(file) == [c \in 1..Len(file.header) |-> c]

\* the rows of the file are the rows of the frame in the frame's order
InFrameOrder ==
  /\ Len(csv_file.rows) = Len(df.rows)
  /\ \A r \in 1..Len(df.rows) : \A c \in 1..Len(df.columns) :
       csv_file.rows[r][c] = CsvField(df.rows[r][c])

\* the file holds as many rows as the frame and, in every column that is not
\* a key, each value as often as the frame does
KeepsRows(key_cols) ==
  /\ Len(csv_file.rows) = Len(df.rows)
  /\ \A c \in 1..Len(df.columns) :
       (\A i \in 1..Len(key_cols) : key_cols[i] # c) =>
         \A r \in 1..Len(df.rows) :
           Cardinality({q \in 1..Len(df.rows) :
                          CsvField(df.rows[q][c]) = CsvField(df.rows[r][c])})
           = Cardinality({q \in 1..Len(df.rows) :
                            csv_file.rows[q][c] = CsvField(df.rows[r][c])})

\* C8 as stated, for a table that has rows: when a declared primary-key
\* column is absent, the file is written with the rows sorted on all columns
\* as the key, and a warning is recorded.
C8_AbsentKeySortsByAllColumns ==
  (pc = "written" /\ SomeKeyAbsent /\ df.rows # <<>>) =>
    /\ csv_file.exists
    /\ Len(csv_file.rows) = Len(df.rows)
    /\ warned
    /\ NonDecreasing(csv_file, AllColumns(csv_file))

\* C8, amended: when a declared primary-key column is absent, the file is
\* still written with every row; if some declared key is a column, the rows
\* are sorted on the declared keys that are columns and a warning is recorded
\* (unless the table has no row); if none is, the rows are written in their
\* original order and no warning is recorded.
C8_AbsentKeySortsByPresentKeys ==
  (pc = "written" /\ SomeKeyAbsent) =>
    LET key_cols == KeyColumns(csv_file, schema_pks)
    IN  /\ csv_file.exists
        /\ IF key_cols # <<>>
           THEN /\ KeepsRows(key_cols)
                /\ NonDecreasing(csv_file, key_cols)
                /\ warned = (df.rows # <<>>)
           ELSE InFrameOrder /\ ~warned

\* a frame written under the keys (z, k): its rows, out of order on k before,
\* are in order on k in the file, which is not in order on all columns
C8_Witness ==
  /\ pc = "written"
  /\ schema_pks = <<ColZ, ColK>>
  /\ warned
  /\ Len(df.rows) >= 2
  /\ ~InFrameOrder
  /\ NonDecreasing(csv_file, KeyColumns(csv_file, schema_pks))

\* the values of the model that are nulls
IsNull(v) == v.k # "str"

NullTokens ==
  {<<"N", "o", "n", "e">>, <<"n", "a", "n">>, <<"N", "a", "N">>,
   <<"n", "u", "l", "l">>, <<"<", "N", "A", ">">>}

\* C9: every null value of the table, in a primary-key column or not, is an
\* empty field of the CSV, and no field is a token that stands for a null.
C9_NullsAreEmptyFields ==
  pc = "written" =>
    /\ \A r \in 1..Len(csv_file.rows) : \A c \in 1..Len(csv_file.header) :
         csv_file.rows[r][c] \notin NullTokens
    /\ \A c \in 1..Len(df.columns) :
         Cardinality({r \in 1..Len(df.rows) : IsNull(df.rows[r][c])})
         <= Cardinality({r \in 1..Len(csv_file.rows) : csv_file.rows[r][c] = <<>>})

\* the table_ids of an extraction, in the order of the tables
TableIds(fs) == [i \in 1..Len(fs) |-> fs[i].table_id]

\* C10: an extraction that follows an earlier one, the table having been
\* moved to another row and/or column of its sheet in between, gives the
\* table the table_id the earlier extraction gave it.
C10_TableIdSurvivesMove ==
  [][(frames # <<>> /\ pc = "scanned" /\ pc' = "extracted")
       => TableIds(frames') = TableIds(frames)]_vars

\* a table with a logical name, extracted again away from A1, in another row
\* and another column
C10_Witness ==
  /\ pc = "extracted"
  /\ Len(frames) = 1
  /\ Truthy(tables[1].logical_name)
  /\ tables[1].tag_row # 1
  /\ tables[1].tag_col # 1
  /\ frames[1].tag_position = TagPosition(tables[1])

\* the positions of a name that survive the normalization: the characters
\* that are not spaces, and the first space of each run of spaces that has
\* other characters on both sides
Kept(raw) ==
  {i \in 1..Len(raw) :
     \/ raw[i] # " "
     \/ /\ i > 1 /\ raw[i - 1] # " "
        /\ \E j \in (i + 1)..Len(raw) : raw[j] # " "}

\* the k-th smallest element of a set of numbers
Nth(S, k) == CHOOSE i \in S : Cardinality({j \in S : j < i}) = k - 1

\* out is what the character ch of a name becomes: a lower-case letter, a digit
\* and an underscore stay, an upper-case letter becomes its lower-case letter,
\* anything else becomes an underscore
NormalChar(ch, out) ==
  IF (Cp[ch] >= 97 /\ Cp[ch] <= 122) \/ (Cp[ch] >= 48 /\ Cp[ch] <= 57) \/ ch = "_"
  THEN out = ch
  ELSE IF Cp[ch] >= 65 /\ Cp[ch] <= 90 THEN Cp[out] = Cp[ch] + 32
  ELSE out = "_"

\* out is raw normalized: lowercased, outer whitespace dropped, each run of
\* inner whitespace one underscore, every other character outside a-z, 0-9
\* and the underscore an underscore
IsNormalizationOf(raw, out) ==
  /\ Len(out) = Cardinality(Kept(raw))
  /\ \A k \in 1..Len(out) : NormalChar(raw[Nth(Kept(raw), k)], out[k])

\* out is raw in upper case, character by character
IsUpperCaseOf(raw, out) ==
  /\ Len(out) = Len(raw)
  /\ \A k \in 1..Len(raw) :
       IF Cp[raw[k]] >= 97 /\ Cp[raw[k]] <= 122
       THEN Cp[out[k]] = Cp[raw[k]] - 32
       ELSE out[k] = raw[k]

\* the id is the workbook_id and parts of the lengths n_sheet, n_tag and (if
\* there is a logical name) n_name, joined by double underscores
IdParts(id, n_sheet, n_tag, n_name, named) ==
  LET at_sheet == Len(WorkbookId) + 2
      at_tag == at_sheet + n_sheet + 2
      at_name == at_tag + n_tag + 2
  IN  [well_formed |->
         /\ Len(id) = IF named THEN at_name + n_name ELSE at_tag + n_tag
         /\ SubSeq(id, 1, Len(WorkbookId)) = WorkbookId
         /\ SubSeq(id, at_sheet - 1, at_sheet) = <<"_", "_">>
         /\ SubSeq(id, at_tag - 1, at_tag) = <<"_", "_">>
         /\ named => SubSeq(id, at_name - 1, at_name) = <<"_", "_">>,
       sheet |-> SubSeq(id, at_sheet + 1, at_sheet + n_sheet),
       tag |-> SubSeq(id, at_tag + 1, at_tag + n_tag),
       name |-> SubSeq(id, at_name + 1, at_name + n_name)]

\* C11 as stated: the parts of a table_id that come from the sheet name, the
\* tag type and the logical name are each the normalized form of it.
C11_AllComponentsNormalized ==
  pc = "extracted" =>
    \A i \in 1..Len(frames) :
      LET T == tables[i]
          named == Truthy(T.logical_name)
          parts == IdParts(frames[i].table_id,
                           Cardinality(Kept(T.sheet_name)),
                           Cardinality(Kept(T.tag_type)),
                           IF named THEN Cardinality(Kept(T.logical_name.s)) ELSE 0,
                           named)
      IN  /\ parts.well_formed
          /\ IsNormalizationOf(T.sheet_name, parts.sheet)
          /\ IsNormalizationOf(T.tag_type, parts.tag)
          /\ named => IsNormalizationOf(T.logical_name.s, parts.name)

\* C11, amended: the parts of a table_id that come from the sheet name and
\* the logical name are each the normalized form of it; the part that comes
\* from the tag type is the tag type in upper case, otherwise unchanged.
C11_NamesNormalizedTagUpper ==
  pc = "extracted" =>
    \A i \in 1..Len(frames) :
      LET T == tables[i]
          named == Truthy(T.logical_name)
          parts == IdParts(frames[i].table_id,
                           Cardinality(Kept(T.sheet_name)),
                           Len(T.tag_type),
                           IF named THEN Cardinality(Kept(T.logical_name.s)) ELSE 0,
                           named)
      IN  /\ parts.well_formed
          /\ IsNormalizationOf(T.sheet_name, parts.sheet)
          /\ IsUpperCaseOf(T.tag_type, parts.tag)
          /\ named => IsNormalizationOf(T.logical_name.s, parts.name)

\* a table whose logical name has an upper-case letter, a run of two spaces
\* and a hyphen, under a tag type with a hyphen
C11_Witness ==
  /\ pc = "extracted"
  /\ Len(frames) = 1
  /\ tables[1].tag_type = <<"f", "-", "t">>
  /\ tables[1].logical_name = StrV(<<"A", " ", " ", "-">>)
  /\ frames[1].table_id
       = WorkbookId \o <<"_", "_", "s", "1", "_", "_", "F", "-", "T", "_", "_",
                         "a", "_", "_">>

\* C12: any two different workbook files one run of extract_deck discovers
\* in a deck are given different workbook_ids.
C12_WorkbookIdsDistinct ==
  pc = "indexed" =>
    \A f, g \in DiscoverWorkbooks(DOMAIN deck) :
      f # g => generate_workbook_id(f) # generate_workbook_id(g)

Elems(seq) == {seq[k] : k \in 1..Len(seq)}

\* the keys of the index an index file holds, and the content hash it
\* records for a key
KeysIn(file) == {file.doc.tables[k].workbook_id \o <<"/">> \o file.doc.tables[k].table_id :
                 k \in 1..Len(file.doc.tables)}

HashIn(file, key) ==
  LET k == CHOOSE n \in 1..Len(file.doc.tables) :
             file.doc.tables[n].workbook_id \o <<"/">> \o file.doc.tables[n].table_id = key
  IN  file.doc.tables[k].csv_sha256

\* the four classes partition the keys of the two indexes as the hashes say
Classifies(added, removed, modified, unchanged, a, b) ==
  LET A == KeysIn(a)
      B == KeysIn(b)
  IN  /\ added = B \ A
      /\ removed = A \ B
      /\ modified = {key \in A \cap B : HashIn(a, key) # HashIn(b, key)}
      /\ unchanged = {key \in A \cap B : HashIn(a, key) = HashIn(b, key)}

\* C13: both diffs place every key of the two indexes in exactly one of
\* added, removed, modified and unchanged: added iff only in B, removed iff
\* only in A, modified iff in both with different content hashes, unchanged
\* iff in both with equal hashes; so added + modified + unchanged = |B| and
\* removed + modified + unchanged = |A|.
C13_DiffPartitionsKeys ==
  pc = "decks" =>
    /\ (diff_out.report.ran /\ diff_out.report.computed) =>
         LET r == diff_out.report.result
         IN  /\ Classifies(Elems(r.added), Elems(r.removed), Elems(r.modified),
                           Elems(r.unchanged), diff_in.a, diff_in.b)
             /\ Len(r.added) + Len(r.removed) + Len(r.modified) + Len(r.unchanged)
                  = Cardinality(KeysIn(diff_in.a) \cup KeysIn(diff_in.b))
             /\ Len(r.added) + Len(r.modified) + Len(r.unchanged)
                  = Cardinality(KeysIn(diff_in.b))
             /\ Len(r.removed) + Len(r.modified) + Len(r.unchanged)
                  = Cardinality(KeysIn(diff_in.a))
    /\ (diff_out.diff.ran /\ diff_out.diff.call.diff.computed) =>
         LET r == diff_out.diff.call.diff.result
             modified == {r.tables_modified[k].table_id : k \in 1..Len(r.tables_modified)}
             A == KeysIn(diff_in.a)
             B == KeysIn(diff_in.b)
         IN  /\ Classifies(Elems(r.tables_added), Elems(r.tables_removed), modified,
                           (A \cap B) \ modified, diff_in.a, diff_in.b)
             /\ r.summary.added = Cardinality(B \ A)
             /\ r.summary.removed = Cardinality(A \ B)
             /\ r.summary.modified = Cardinality(modified)
             /\ r.summary.unchanged = Cardinality((A \cap B) \ modified)
             /\ Len(r.tables_added) = r.summary.added
             /\ Len(r.tables_removed) = r.summary.removed
             /\ Len(r.tables_modified) = r.summary.modified
             /\ r.summary.added + r.summary.modified + r.summary.unchanged
                  = r.summary.total_tables_b
             /\ r.summary.removed + r.summary.modified + r.summary.unchanged
                  = r.summary.total_tables_a
             /\ r.summary.total_tables_a = Cardinality(A)
             /\ r.summary.total_tables_b = Cardinality(B)

\* both diffs ran on two indexes with a table only in A, a table only in B
\* and a table of both whose content differs
C13_Witness ==
  /\ pc = "decks"
  /\ diff_out.report.ran /\ diff_out.report.computed
  /\ diff_out.diff.ran /\ diff_out.diff.call.diff.computed
  /\ Len(diff_out.report.result.added) = 1
  /\ Len(diff_out.report.result.removed) = 1
  /\ Len(diff_out.report.result.modified) = 1
  /\ diff_out.diff.call.diff.result.summary.modified = 1

\* the two index files load
BothLoad == /\ diff_in.a.exists /\ diff_in.a.complete
            /\ diff_in.b.exists /\ diff_in.b.complete

\* C14: diff_decks returns 0 exactly when both indexes load, the diff
\* reaches its output and no table is added, removed or modified; it returns
\* a non-zero status when a difference exists or an error occurs.
C14_StatusZeroIffNoChange ==
  (pc = "decks" /\ diff_out.diff.ran) =>
    LET status == diff_out.diff.call.status
    IN  /\ status \in {0, 1}
        /\ status = 0 <=>
             /\ BothLoad
             /\ diff_in.output # "unwritable"
             /\ KeysIn(diff_in.a) = KeysIn(diff_in.b)
             /\ \A key \in KeysIn(diff_in.a) : HashIn(diff_in.a, key) = HashIn(diff_in.b, key)
        /\ status = 0 => diff_out.diff.call.written

\* diff_decks returned 0 for two decks of the same two tables
C14_WitnessZero ==
  /\ pc = "decks"
  /\ diff_out.diff.ran
  /\ diff_out.diff.call.status = 0
  /\ BothLoad
  /\ Cardinality(KeysIn(diff_in.a)) = 2
  /\ diff_in.output = "writable"

\* C15: at every instant of TablesIndexIO.write, a failure and a crash at any
\* step included, the destination holds the complete previous index or the
\* complete new index, never a partially written one.
C15_DestinationPreviousOrNew ==
  /\ [](index_file.exists => index_file.complete)
  /\ [][index_file' = index_file \/ index_file' = WholeFile(index)]_vars

\* the process died with a partial temporary file, after an earlier write
\* of another index had returned: the destination holds the earlier index
C15_WitnessCrash ==
  /\ pc = "crashed"
  /\ tmp_file = PartFile
  /\ index_file.exists
  /\ index_file.complete
  /\ Len(index_file.doc.tables) = 1
  /\ Len(index.tables) = 2

\* C16: in the index extract_deck returns and in the one it persists, the
\* workbook_id of every table is the id of an entry of the workbooks map.
C16_TablesReferenceWorkbooks ==
  pc \in {"indexed", "edited"} =>
    /\ \A k \in 1..Len(index.tables) :
         index.tables[k].workbook_id \in DOMAIN index.workbooks
    /\ index_file.exists
    /\ \A k \in 1..Len(index_file.doc.tables) :
         index_file.doc.tables[k].workbook_id \in DOMAIN index_file.doc.workbooks

\* the second run on a deck of two workbooks found one of the three CSV
\* files missing: it reused the tables of the first run for one workbook and
\* extracted the other workbook again
C16_Witness ==
  /\ pc = "indexed"
  /\ now = 3
  /\ Len(index.tables) = 3
  /\ Cardinality(DOMAIN index.workbooks) = 2
  /\ \E j, k \in 1..Len(index.tables) :
       /\ index.tables[j].extracted_at = 1
       /\ index.tables[k].extracted_at = 3

\* an index without its timestamps: the workbooks, and the tables with
\* extracted_at left out
Untimed(idx) ==
  [version |-> idx.version,
   generator |-> idx.generator,
   workbooks |-> idx.workbooks,
   tables |-> {[idx.tables[k] EXCEPT !.extracted_at = 0] : k \in 1..Len(idx.tables)}]

\* C18: a run of extract_deck that follows a run on the same deck, finding
\* that run's index and CSV files, leaves every CSV file as it was and
\* gives an index that differs from the first run's only in generated_at
\* and extracted_at.
C18_SecondRunChangesNothing ==
  [][(pc = "indexed" /\ pc' = "indexed") =>
       /\ shadow' = shadow
       /\ Untimed(index') = Untimed(index)]_vars

C19_FormatIdempotent ==
  [][(pc = "formatted" /\ pc' = "formatted") =>
       /\ csv_file' = csv_file
       /\ table_meta' = table_meta]_vars

\* a file whose first formatting moved a row with an empty key in front of
\* rows that tie on the key, formatted once
C19_Witness ==
  /\ pc = "formatted"
  /\ table_meta.primary_keys = <<ColK>>
  /\ Len(csv_file.rows) = 3
  /\ csv_file.rows[1] = <<<<>>, <<"A">>>>
  /\ csv_file.rows[2] = <<<<"B">>, <<"A">>>>
  /\ csv_file.rows[3] = <<<<"B">>, <<>>>>
  /\ table_meta.csv_sha256 = Sha256([header |-> csv_file.header, rows |-> csv_file.rows])

\* how many rows of a file are the row
RowCount(file, row) == Cardinality({r \in 1..Len(file.rows) : file.rows[r] = row})

\* C20: format_deck leaves each CSV file with the same columns and the same
\* multiset of rows of cell values; only the order of the rows may change.
C20_FormatPreservesData ==
  [][pc' = "formatted" =>
       /\ csv_file'.header = csv_file.header
       /\ Len(csv_file'.rows) = Len(csv_file.rows)
       /\ \A r \in 1..Len(csv_file.rows) :
            RowCount(csv_file', csv_file.rows[r]) = RowCount(csv_file, csv_file.rows[r])]_vars

\* C21: a run of extract_deck in which one table or one workbook fails is
\* not aborted: every workbook of the deck is processed and the index of
\* the run is written at the end.
C21_RunSurvivesFailures ==
  [][(now' # now /\ deck' = deck /\ DOMAIN shadow \subseteq DOMAIN shadow') =>
       /\ pc' = "indexed"
       /\ index_file'.exists /\ index_file'.complete
       /\ index_file'.doc.generated_at = now'
       /\ \A f \in DiscoverWorkbooks(DOMAIN deck) :
            generate_workbook_id(f) \in DOMAIN index'.workbooks]_vars

\* the columns the schema requires of a table of the tag type: its fields
\* flagged as primary keys
RequiredColumns(sch, tag_type) ==
  {get_primary_keys(sch, tag_type)[i] :
     i \in 1..Len(get_primary_keys(sch, tag_type))}

\* a column the schema requires is in the CSV file neither under its name
\* nor under an alias of it
RequiredColumnAbsent ==
  /\ csv_file.exists
  /\ \E f \in RequiredColumns(schema, table_meta.tag_type) :
       \A i \in 1..Len(csv_file.header) :
          /\ csv_file.header[i] # f
          /\ get_canonical_name(schema, table_meta.tag_type, csv_file.header[i])
               # StrV(f)

\* a primary key column of the index entry holds an empty field
PrimaryKeyNull ==
  /\ csv_file.exists
  /\ \E i \in 1..Len(table_meta.primary_keys), r \in 1..Len(csv_file.rows) :
       /\ ColumnIndex(csv_file.header, table_meta.primary_keys[i]) # 0
       /\ csv_file.rows[r][ColumnIndex(csv_file.header,
                                       table_meta.primary_keys[i])] = <<>>

\* two rows of the CSV file have the same primary key tuple
PrimaryKeyDuplicate ==
  /\ csv_file.exists
  /\ table_meta.primary_keys # <<>>
  /\ \A i \in 1..Len(table_meta.primary_keys) :
       ColumnIndex(csv_file.header, table_meta.primary_keys[i]) # 0
  /\ \E r1, r2 \in 1..Len(csv_file.rows) :
       /\ r1 # r2
       /\ \A i \in 1..Len(table_meta.primary_keys) :
            csv_file.rows[r1][ColumnIndex(csv_file.header,
                                          table_meta.primary_keys[i])] =
              csv_file.rows[r2][ColumnIndex(csv_file.header,
                                            table_meta.primary_keys[i])]

\* the columns of the CSV file are not the columns of the index entry
ColumnSetDiffers ==
  /\ csv_file.exists
  /\ Elems(csv_file.header) # Elems(table_meta.columns)

\* C22: validate_deck returns a failing status when the table lacks a
\* column the schema requires, has an empty primary key value, has two rows
\* with the same primary key tuple, or has other columns in its CSV file
\* than in its index entry.
C22_InvalidTableFails ==
  (/\ pc = "validated"
   /\ RequiredColumnAbsent \/ PrimaryKeyNull \/ PrimaryKeyDuplicate
        \/ ColumnSetDiffers)
    => validation.status = 1

\* the three checks validate_deck does make, by themselves
C22_ChecksMade ==
  (/\ pc = "validated"
   /\ PrimaryKeyNull \/ PrimaryKeyDuplicate \/ ColumnSetDiffers)
    => validation.status = 1

\* the cells of the one sheet that hold a tag of another type than uc_sets
TableTagCells ==
  {rc \in (1..max_row(workbook[1])) \X (1..max_column(workbook[1])) :
     /\ rc[2] \in TagColumns(workbook[1], rc[1])
     /\ _parse_tag(Strip(PyStr(cell(workbook[1], rc[1], rc[2])))).tag_type # UcSets}

\* C23: scan_workbook returns one entry for every cell whose trimmed text
\* starts with "~" and whose tag type is not uc_sets, none for a uc_sets
\* tag, and the entries of a sheet in row-major order.
C23_OneEntryPerTagRowMajor ==
  pc \in {"scanned", "extracted"} =>
    /\ Len(tables) = Cardinality(TableTagCells)
    /\ \A k \in 1..Len(tables) :
         /\ <<tables[k].tag_row, tables[k].tag_col>> \in TableTagCells
         /\ tables[k].tag_type # UcSets
    /\ \A k, l \in 1..Len(tables) :
         k < l => \/ tables[k].tag_row < tables[l].tag_row
                  \/ /\ tables[k].tag_row = tables[l].tag_row
                     /\ tables[k].tag_col < tables[l].tag_col

\* a sheet with a uc_sets tag in its first cell and two other tags, one of
\* them in the next row and an earlier column, was scanned
C23_Witness ==
  /\ pc = "scanned"
  /\ Len(tables) = 2
  /\ cell(workbook[1], 1, 1) = TagUc
  /\ tables[1].tag_row = 1 /\ tables[1].tag_col = 2
  /\ tables[2].tag_row = 2 /\ tables[2].tag_col = 1

\* C24: a cell holding an integer is extracted as the digits of the
\* integer, without a trailing ".0", whatever the other cells of its column
\* hold.
C24_IntegersKeepDigits ==
  pc = "extracted" =>
    \A i \in 1..Len(frames) :
       \A r \in 1..Len(frames[i].read.data_rows) :
          \A c \in 1..Len(frames[i].read.headers) :
             frames[i].read.data_rows[r][c].k = "int" =>
               frames[i].df.rows[r][c] = StrV(frames[i].read.data_rows[r][c].s)

\* the integers of the columns that hold no None keep their digits
C24_IntegersOfFullColumns ==
  pc = "extracted" =>
    \A i \in 1..Len(frames) :
       \A r \in 1..Len(frames[i].read.data_rows) :
          \A c \in 1..Len(frames[i].read.headers) :
             (/\ frames[i].read.data_rows[r][c].k = "int"
              /\ \A q \in 1..Len(frames[i].read.data_rows) :
                    frames[i].read.data_rows[q][c] # NoneV)
               => frames[i].df.rows[r][c] = StrV(frames[i].read.data_rows[r][c].s)

\* C25: when diff_commits has left the block of its temporary directory, on
\* whichever path, no worktree of it is registered with git and the
\* temporary directory with the worktree directories is gone.
C25_WorktreesCleanedUp ==
  pc = "returned" =>
    /\ worktrees.registered \cap TempWorktrees = {}
    /\ worktrees.dirs \cap TempWorktrees = {}
    /\ ~worktrees.tmpdir

\* both worktrees were added, a later step raised, and the command returned 1
C25_Witness ==
  /\ pc = "returned"
  /\ worktrees.added = {"base", "head"}
  /\ worktrees.status = "1"

\* C26: for every tag with a table, extract_table reads the columns of the
\* header span scan_workbook reports for the tag and as many data rows as
\* its row_count.
C26_ExtractReadsScannedSpan ==
  pc = "extracted" =>
    \A i \in 1..Len(tables) :
       tables[i].headers # <<>> =>
         /\ frames[i].read.first_col = tables[i].first_col
         /\ frames[i].read.last_col = tables[i].last_col
         /\ Len(frames[i].read.data_rows) = tables[i].row_count

\* the same for the tags that have no other tag on their row
C26_LoneTagsReadScannedSpan ==
  pc = "extracted" =>
    \A i \in 1..Len(tables) :
       (/\ tables[i].headers # <<>>
        /\ TagColumns(SheetNamed(workbook, tables[i].sheet_name),
                      tables[i].tag_row) = {tables[i].tag_col}) =>
         /\ frames[i].read.first_col = tables[i].first_col
         /\ frames[i].read.last_col = tables[i].last_col
         /\ Len(frames[i].read.data_rows) = tables[i].row_count

\* the tags of a workbook that scan_workbook returns and extract_table
\* extracts without raising
ExtractedTags(content) ==
  IF content.corrupt THEN 0
  ELSE Cardinality({i \in 1..Len(scan_workbook(content.sheets)) :
                      ~extract_table(content.sheets,
                                     scan_workbook(content.sheets)[i],
                                     schema).raised})

\* the sum of ExtractedTags over the workbook files paths[k..] of the deck
RECURSIVE ExtractedTagsFrom(_, _)
ExtractedTagsFrom(paths, k) ==
  IF k > Len(paths) THEN 0
  ELSE ExtractedTags(deck[paths[k]]) + ExtractedTagsFrom(paths, k + 1)

\* C27: after the first extract_deck of a deck the index has one entry and
\* the shadow directory one CSV file for every tag that was scanned and
\* extracted without error.
C27_OneEntryPerExtractedTag ==
  [][(pc = "deck" /\ pc' = "indexed") =>
       /\ Len(index'.tables)
            = ExtractedTagsFrom(SortedPaths(DiscoverWorkbooks(DOMAIN deck)), 1)
       /\ Cardinality(DOMAIN shadow') = Len(index'.tables)]_vars

\* the same for the decks whose workbook files have distinct stems and
\* whose sheets hold no two tags of one type and name
C27_DistinctIdsOneEntryEach ==
  [][(/\ pc = "deck" /\ pc' = "indexed"
      /\ \A f, g \in DiscoverWorkbooks(DOMAIN deck) :
            f # g => generate_workbook_id(f) # generate_workbook_id(g)
      /\ \A f \in DOMAIN deck : deck[f] # ContentSame) =>
       /\ Len(index'.tables)
            = ExtractedTagsFrom(SortedPaths(DiscoverWorkbooks(DOMAIN deck)), 1)
       /\ Cardinality(DOMAIN shadow') = Len(index'.tables)]_vars

\* the index file is there and every table of it has a CSV file whose hash
\* is the csv_sha256 of the table
HashesMatchFiles ==
  /\ index_file.exists /\ index_file.complete
  /\ \A k \in 1..Len(index_file.doc.tables) :
       /\ index_file.doc.tables[k].csv_path \in DOMAIN shadow
       /\ index_file.doc.tables[k].csv_sha256
            = Sha256(shadow[index_file.doc.tables[k].csv_path])

\* C28: after any sequence of extract_deck and format_deck runs that ended
\* with the index written, the csv_sha256 of every table of the index file
\* is the hash of the CSV file at its csv_path.
C28_IndexHashesMatchFiles ==
  pc \in {"indexed", "formatted"} => HashesMatchFiles

\* the same for the decks that never held two workbook files of one stem
C28_DistinctStemsHashesMatch ==
  [](\A f, g \in DiscoverWorkbooks(DOMAIN deck) :
        f # g => generate_workbook_id(f) # generate_workbook_id(g))
    => [](pc \in {"indexed", "formatted"} => HashesMatchFiles)

\* C29: the header spans scan_workbook reports for two distinct tags of one
\* row of a sheet have no column in common.
C29_SpansOfOneRowDisjoint ==
  pc # "start" =>
    \A i, j \in 1..Len(tables) :
       (/\ i # j
        /\ tables[i].sheet_name = tables[j].sheet_name
        /\ tables[i].tag_row = tables[j].tag_row) =>
         SpanColumns(tables[i]) \cap SpanColumns(tables[j]) = {}

\* the same for two tags in neighbouring columns
C29_NeighbourSpansDisjoint ==
  pc # "start" =>
    \A i, j \in 1..Len(tables) :
       (/\ tables[i].sheet_name = tables[j].sheet_name
        /\ tables[i].tag_row = tables[j].tag_row
        /\ tables[j].tag_col = tables[i].tag_col + 1) =>
         SpanColumns(tables[i]) \cap SpanColumns(tables[j]) = {}

\* extract_deck cannot load the workbook, or extract_table raises for one
\* of the tables scan_workbook finds in it
FailsToExtract(content) ==
  \/ content.corrupt
  \/ ExtractedTags(content) < Len(scan_workbook(content.sheets))

\* C30: a workbook that failed to load or had a table that failed to
\* extract is processed again by the next run on the unchanged deck: the
\* tables of it in the new index are extracted by that run.
C30_FailedWorkbookProcessedAgain ==
  [][(pc = "indexed" /\ pc' = "indexed") =>
       \A f \in DiscoverWorkbooks(DOMAIN deck) :
          FailsToExtract(deck[f]) =>
            \A k \in 1..Len(index'.tables) :
               index'.tables[k].workbook_id = generate_workbook_id(f)
                 => index'.tables[k].extracted_at = now']_vars

\* the same on the decks of one workbook file
C30_LoneFailedWorkbookProcessedAgain ==
  [][(pc = "indexed" /\ pc' = "indexed" /\ Cardinality(DOMAIN deck) = 1) =>
       \A f \in DiscoverWorkbooks(DOMAIN deck) :
          FailsToExtract(deck[f]) =>
            \A k \in 1..Len(index'.tables) :
               index'.tables[k].workbook_id = generate_workbook_id(f)
                 => index'.tables[k].extracted_at = now']_vars

====
